---- MODULE Spec2Model ----
(***************************************************************************)
(* Model of the dosgato-render page rendering pipeline (renderPage and its *)
(* helpers hydratePage, hydrateComponent, collectComponents,               *)
(* executeSetContext, renderComponent and renderVariation).                *)
(*                                                                         *)
(* One behaviour of Spec is one call of renderPage.  The page data, the    *)
(* template registry, the request (extension, editMode) and the behaviour  *)
(* of the template hooks (fetch, registerInherited, setContext, render,    *)
(* renderVariation resolving or throwing) are the inputs; hooks are chosen *)
(* at the step at which the pipeline calls them.                           *)
(***************************************************************************)
EXTENDS Integers, Sequences, FiniteSets, TLC

\* number of native components in the page's area "main"
NumNative == 2
\* number of components handed to registerInherited
NumInherited == 2
\* number of hook calls (fetch, setContext, render, renderVariation) that
\* throw or reject during one render
MaxThrowing == 2

(***************************************************************************)
(* Page data.  A component (and the data it is hydrated from) is named by  *)
(* a triple: the page root, native component i of area main, its child,    *)
(* inherited component k of the registration, and its child.               *)
(***************************************************************************)
Root == <<"P", 0, 0>>
Native(i) == <<"N", i, 0>>
NativeChild(i) == <<"N", i, 1>>
Inherited(k) == <<"I", k, 0>>
InheritedChild(k) == <<"I", k, 1>>
\* a component of an area the page data holds but the template does not declare
Stray == <<"N", 0, 1>>
\* the component native component i hands to registerInherited on its own
Extra(i) == <<"X", i, 0>>

NativeIds == {Root} \cup {Native(i) : i \in 1..NumNative} \cup {NativeChild(2)}
InheritedIds == {Inherited(k) : k \in 1..NumInherited} \cup {InheritedChild(2)}
ExtraIds == {Extra(1), Extra(2)}
AllIds == NativeIds \cup InheritedIds \cup ExtraIds \cup {Stray}

\* componentData.templateKey: the first component of a list is a link, the
\* second a panel (with one child in its area content), the others quotes;
\* the components registered one by one are a horizontal rule and a text
\* with image
templateKey(d) ==
  IF d = Root THEN "keyp1"
  ELSE IF d[1] = "X" THEN IF d[2] = 1 THEN "horizontalrule" ELSE "textimage"
  ELSE IF d[3] = 1 THEN "quote"
  ELSE IF d[2] = 1 THEN "link"
  ELSE IF d[2] = 2 THEN "panel"
  ELSE "quote"

\* componentData.areas: area name -> list of component data
DataAreaNames(d) ==
  IF d = Root THEN {"main", "junk"}
  ELSE IF d[3] = 0 /\ d[2] = 2 THEN {"content"}
  ELSE {}

DataArea(d, key) ==
  IF d = Root /\ key = "main" THEN [i \in 1..NumNative |-> Native(i)]
  ELSE IF d = Root /\ key = "junk" THEN <<Stray>>
  ELSE IF d[3] = 0 /\ d[2] = 2 /\ key = "content" THEN <<<<d[1], 2, 1>>>>
  ELSE <<>>

\* the components handed to registerInherited, and the page they come from
InheritedData == [k \in 1..NumInherited |-> Inherited(k)]
FromPageId == "ancestor"
\* one page id per component handed to registerInherited
FromPageIds == [k \in 1..NumInherited |-> "ancestor" \o ToString(k)]

\* api.getTemplates(): the areas each template declares, in order
templateByKey(key) ==
  IF key = "keyp1" THEN <<"main">>
  ELSE IF key = "panel" THEN <<"content">>
  ELSE <<>>

Modes == {"top", "bottom", "replace"}
Extensions == {"html", "rss"}

\* a string is a list of tokens, each a triple; a template's own markup is
\* the name of its component.  The two strings the pipeline itself produces:
EmptyString == <<>>
Placeholder == <<<<"There was an error rendering a component here.", 0, 0>>>>

(***************************************************************************)
(* The template registry.  A template class (or resource provider)         *)
(* declares JS blocks, files and CSS blocks, each a list of entries in the *)
(* order of its Map; a version is absent or a semantic version <<major,    *)
(* minor, patch>>.                                                         *)
(***************************************************************************)
NoVersion == <<>>
NoEntries == [x \in {} |-> <<>>]

JSBlock(key, version) == [key |-> key, version |-> version]
FileDeclaration(key, version, mime) == [key |-> key, version |-> version, mime |-> mime]
CSSBlock(key, version, targetsEditBars, fonts) ==
  [key |-> key, version |-> version, targetsEditBars |-> targetsEditBars, fonts |-> fonts]

\* the templates of the test server; the panel also declares a block of
\* styles for its edit bars, with a font of its own
PageTemplate1 ==
  [name |-> "PageTemplate1", templateKey |-> "keyp1", isPage |-> TRUE,
   jsBlocks |-> <<JSBlock("blanktemplate_admin", NoVersion)>>,
   files |-> <<>>,
   cssBlocks |-> <<CSSBlock("blanktemplate", NoVersion, FALSE, <<>>)>>]
LinkTemplate ==
  [name |-> "LinkTemplate", templateKey |-> "link", isPage |-> FALSE,
   jsBlocks |-> <<>>,
   files |-> <<>>,
   cssBlocks |-> <<CSSBlock("linktemplate", NoVersion, FALSE, <<>>)>>]
PanelTemplate ==
  [name |-> "PanelTemplate", templateKey |-> "panel", isPage |-> FALSE,
   jsBlocks |-> <<JSBlock("panel", NoVersion)>>,
   files |-> <<>>,
   cssBlocks |-> <<CSSBlock("richtext", NoVersion, FALSE, <<>>),
                   CSSBlock("paneledit", NoVersion, TRUE, <<"editicons">>)>>]
QuoteTemplate ==
  [name |-> "QuoteTemplate", templateKey |-> "quote", isPage |-> FALSE,
   jsBlocks |-> <<>>,
   files |-> <<FileDeclaration("roboto400", NoVersion, FALSE),
               FileDeclaration("roboto400italic", NoVersion, FALSE)>>,
   cssBlocks |-> <<CSSBlock("quote", NoVersion, FALSE, <<>>),
                   CSSBlock("roboto", NoVersion, FALSE, <<"roboto400", "roboto400italic">>)>>]
HorizontalRuleTemplate ==
  [name |-> "HorizontalRuleTemplate", templateKey |-> "horizontalrule", isPage |-> FALSE,
   jsBlocks |-> <<>>, files |-> <<>>,
   cssBlocks |-> <<CSSBlock("horizontalrule", NoVersion, FALSE, <<>>)>>]
TextImageTemplate ==
  [name |-> "TextImageTemplate", templateKey |-> "textimage", isPage |-> FALSE,
   jsBlocks |-> <<>>, files |-> <<>>,
   cssBlocks |-> <<CSSBlock("textimage", NoVersion, FALSE, <<>>)>>]

\* semver.gt on <<major, minor, patch>>
semverGt(v2, v1) ==
  \/ v2[1] > v1[1]
  \/ v2[1] = v1[1] /\ v2[2] > v1[2]
  \/ v2[1] = v1[1] /\ v2[2] = v1[2] /\ v2[3] > v1[3]

\* a comparison that also lets an equal version through
versionGreaterOrEqual(v2, v1) ==
  IF v2 = NoVersion THEN FALSE
  ELSE IF v1 = NoVersion THEN TRUE
  ELSE v2 = v1 \/ semverGt(v2, v1)

versionGreater(v2, v1) ==
  IF v2 = NoVersion THEN FALSE
  ELSE IF v1 = NoVersion THEN TRUE
  ELSE semverGt(v2, v1)

\* the calls of addTemplate and addProvider made so far, the template
\* classes whose blocks have been emptied, the files (template name, key)
\* whose mime type has been detected and written back to the class, the
\* CSS blocks whose file cannot be read, and the state of
\* RenderingServer.start: starting, listening or rejected
NoCalls ==
  [calls |-> <<>>, cleared |-> {}, detected |-> {}, unreadable |-> {}, server |-> "starting"]

\* new TemplateRegistry()
NewRegistry ==
  [pages |-> NoEntries, components |-> NoEntries, cssblocks |-> NoEntries,
   jsblocks |-> NoEntries, files |-> NoEntries, all |-> <<>>]

\* the blocks a template class holds: once an addProvider call of the
\* class has finished, its JS and CSS blocks are empty objects
declaredJs(template, cleared) ==
  [i \in 1..Len(template.jsBlocks) |->
     IF template.name \in cleared THEN JSBlock(template.jsBlocks[i].key, NoVersion)
     ELSE template.jsBlocks[i]]

declaredCss(template, cleared) ==
  [i \in 1..Len(template.cssBlocks) |->
     IF template.name \in cleared THEN CSSBlock(template.cssBlocks[i].key, NoVersion, FALSE, <<>>)
     ELSE template.cssBlocks[i]]

\* the test that an incoming block is stored: no entry yet, or a greater version
replaces(map, block) ==
  block.key \notin DOMAIN map \/ versionGreater(block.version, map[block.key].version)

\* addTemplate up to its call of addProvider: the template is stored under
\* its key as a page or as a component, and appended to all
addTemplate(reg, template) ==
  LET key == template.templateKey
      stored == IF template.isPage /\ key \notin DOMAIN reg.pages
                THEN [reg EXCEPT !.pages = (key :> template.name) @@ @]
                ELSE IF key \notin DOMAIN reg.components
                THEN [reg EXCEPT !.components = (key :> template.name) @@ @]
                ELSE reg
  IN  [stored EXCEPT !.all = Append(@, template.name)]

\* addProvider, the loop over template.jsBlocks
RECURSIVE jsBlocksLoop(_, _, _, _)
jsBlocksLoop(reg, name, blocks, i) ==
  IF i > Len(blocks) THEN reg
  ELSE LET block == blocks[i]
           entry == [version |-> block.version, from |-> name]
       IN  jsBlocksLoop(IF replaces(reg.jsblocks, block)
                        THEN [reg EXCEPT !.jsblocks = (block.key :> entry) @@ @]
                        ELSE reg,
                        name, blocks, i + 1)

\* this.files.set(key, ...)
setFile(reg, name, block) ==
  [reg EXCEPT !.files = (block.key :> [version |-> block.version, from |-> name]) @@ @]

\* addProvider, the loop over template.files from entry i on, up to the
\* await of fileTypeFromFile for an entry without a mime type: at is the
\* entry the loop is suspended at, 0 when the loop has ended
RECURSIVE filesLoop(_, _, _, _)
filesLoop(reg, template, i, detected) ==
  IF i > Len(template.files) THEN [reg |-> reg, at |-> 0]
  ELSE LET block == template.files[i]
       IN  IF replaces(reg.files, block)
           THEN IF ~block.mime /\ <<template.name, block.key>> \notin detected
                THEN [reg |-> reg, at |-> i]
                ELSE filesLoop(setFile(reg, template.name, block), template, i + 1, detected)
           ELSE filesLoop(reg, template, i + 1, detected)

\* addProvider, the loop over template.cssBlocks
RECURSIVE cssBlocksLoop(_, _, _, _)
cssBlocksLoop(reg, name, blocks, i) ==
  IF i > Len(blocks) THEN reg
  ELSE LET block == blocks[i]
           entry == [version |-> block.version, targetsEditBars |-> block.targetsEditBars,
                     fontfiles |-> block.fonts, from |-> name]
       IN  cssBlocksLoop(IF replaces(reg.cssblocks, block)
                         THEN [reg EXCEPT !.cssblocks = (block.key :> entry) @@ @]
                         ELSE reg,
                         name, blocks, i + 1)

\* a call of addTemplate or addProvider: the template, where the call is
\* suspended ("file": at the await of fileTypeFromFile for entry i,
\* "minify": at the await of the minifications), "done", "rejected" (the
\* template has no key) or "failed" (a file could not be read)
Call(template, at, i) == [template |-> template, at |-> at, i |-> i]

\* the first CSS block the loop stores whose file readFileSync cannot
\* read (0: none); the keys of the blocks of one class are distinct
firstUnreadable(map, blocks, unreadable) ==
  IF \E i \in 1..Len(blocks) : replaces(map, blocks[i]) /\ blocks[i].key \in unreadable
  THEN CHOOSE i \in 1..Len(blocks) :
         /\ replaces(map, blocks[i]) /\ blocks[i].key \in unreadable
         /\ \A j \in 1..(i - 1) : ~(replaces(map, blocks[j]) /\ blocks[j].key \in unreadable)
  ELSE 0

\* addProvider, the loop over template.cssBlocks to its end, or to the
\* block whose file cannot be read: that block is stored, then
\* readFileSync throws and the call rejects
cssBlocksPart(reg, template, blocks, failing) ==
  IF failing > 0
  THEN [reg |-> cssBlocksLoop(reg, template.name, SubSeq(blocks, 1, failing), 1),
        call |-> Call(template, "failed", 0)]
  ELSE [reg |-> cssBlocksLoop(reg, template.name, blocks, 1),
        call |-> Call(template, "minify", 0)]

\* the files loop has been left at entry f.at, or has ended
afterFiles(f, template, st) ==
  IF f.at > 0 THEN [reg |-> f.reg, call |-> Call(template, "file", f.at)]
  ELSE cssBlocksPart(f.reg, template, declaredCss(template, st.cleared),
                     firstUnreadable(f.reg.cssblocks, declaredCss(template, st.cleared),
                                     st.unreadable))

\* addProvider goes on with the files loop from entry i: it is suspended
\* at a file again, or runs through the CSS loop to the await of the
\* minifications
continueProvider(reg, template, i, st) ==
  afterFiles(filesLoop(reg, template, i, st.detected), template, st)

\* addProvider up to its first suspension
addProvider(reg, template, st) ==
  continueProvider(jsBlocksLoop(reg, template.name, declaredJs(template, st.cleared), 1),
                   template, 1, st)

\* fileTypeFromFile has resolved for the file the call is suspended at,
\* with a mime type (found) or without one
resumeProvider(reg, call, found, st) ==
  continueProvider(IF found THEN setFile(reg, call.template.name, call.template.files[call.i])
                   ELSE reg,
                   call.template, call.i + 1, st)

\* one template registered from start to end, every file type found
RECURSIVE settle(_)
settle(r) ==
  IF r.call.at = "file" THEN settle(resumeProvider(r.reg, r.call, TRUE, NoCalls))
  ELSE r.reg

\* the registry after the server has started with the templates given
RECURSIVE started(_, _, _)
started(reg, templates, i) ==
  IF i > Len(templates) THEN reg
  ELSE started(settle(addProvider(addTemplate(reg, templates[i]), templates[i], NoCalls)),
               templates, i + 1)

\* the registries a render may meet: every template of the test server
\* registered, or all but one
TestRegistries ==
  {started(NewRegistry, templates, 1) :
     templates \in
       {<<PageTemplate1, LinkTemplate, PanelTemplate, QuoteTemplate,
          HorizontalRuleTemplate, TextImageTemplate>>,
        <<PageTemplate1, PanelTemplate, QuoteTemplate, HorizontalRuleTemplate, TextImageTemplate>>,
        <<PageTemplate1, LinkTemplate, QuoteTemplate, HorizontalRuleTemplate, TextImageTemplate>>,
        <<LinkTemplate, PanelTemplate, QuoteTemplate, HorizontalRuleTemplate, TextImageTemplate>>}}

VARIABLES
  pc,               \* position of renderPage: start, fetch, context, done
  templateRegistry, \* the TemplateRegistry: pages, components, cssblocks, jsblocks, files, all
  startup,          \* [calls, cleared, detected]: the calls of addTemplate and addProvider
  extension,        \* the requested extension
  editMode,         \* the requested mode
  hydrated,         \* the component instances that exist
  areas,            \* component -> its areas map, a list of [name, list] in insertion order
  inheritedFrom,    \* component -> "" (undefined) or the source page id
  fields,           \* component -> [parent, path, editBar, newBar, indexInArea, prevSibling, nextSibling]
  hadError,         \* component -> BOOLEAN
  fetched,          \* component -> "unset", "data" (fetch() result) or "empty" ({})
  componentsIncludingPage,      \* the flattened native list
  componentsIncludingInherited, \* the master list
  fetchTask,        \* native component -> idle, fetching, secondary, failed, done
  registered,       \* native component -> the entries its fetch() registered
  extraComponents,  \* native component -> the inherited components it spliced in
  secondary,        \* inherited component -> idle, fetching, resolved, rejected
  renderCtx,        \* component -> the context it was given (0: none)
  ctxObject,        \* component -> the object its renderCtx refers to (<<>>: none)
  renderCtxForArea, \* component -> per area gone through, [advanced, headerLevel] returned
  ctxTask,          \* component -> [state, area]: position of executeSetContext
  renderedAreas,    \* component -> list of [name, list of [output, component]]
  invoked,          \* the hook calls made: set of <<hook, component, area>>
  threw,            \* the hook calls that threw or rejected: set of <<hook, component>>
  headContent,      \* [set, dgEditingBlocks, tags]: the head content of the page, once assembled
  status,           \* the HTTP status requested with res.status (0: none)
  result            \* [kind, error, body]: pending, rejected with error, or returned body

vars == <<pc, templateRegistry, startup, extension, editMode, hydrated, areas, inheritedFrom,
          fields, hadError, fetched, componentsIncludingPage, componentsIncludingInherited,
          fetchTask, registered, extraComponents, secondary, renderCtx, ctxObject, renderCtxForArea, ctxTask,
          renderedAreas, invoked, threw, headContent, status, result>>

(***************************************************************************)
(* The areas map of a component (a JS Map): a list of [name, list] entries *)
(* in insertion order.                                                     *)
(***************************************************************************)
MapHas(m, key) == \E i \in 1..Len(m) : m[i].name = key

MapGet(m, key) == m[CHOOSE i \in 1..Len(m) : m[i].name = key].list

MapSet(m, key, list) ==
  IF MapHas(m, key)
  THEN [i \in 1..Len(m) |-> IF m[i].name = key THEN [name |-> key, list |-> list] ELSE m[i]]
  ELSE Append(m, [name |-> key, list |-> list])

Range(seq) == {seq[i] : i \in 1..Len(seq)}

RECURSIVE Flatten(_)
Flatten(seqs) == IF seqs = <<>> THEN <<>> ELSE Head(seqs) \o Flatten(Tail(seqs))

\* a splice that ignores the index and inserts at the front
SpliceAtFront(list, start, item) == <<item>> \o list

\* Array.prototype.splice(start, 0, item): start is clamped to the length
Splice(list, start, item) ==
  LET at == IF start > Len(list) THEN Len(list) ELSE start
  IN  SubSeq(list, 1, at) \o <<item>> \o SubSeq(list, at + 1, Len(list))

(***************************************************************************)
(* collectComponents: the component, then the flattened components of each *)
(* of its areas, in order.  ar is the areas of every component.            *)
(***************************************************************************)
RECURSIVE collectComponents(_, _)
collectComponents(component, ar) ==
  <<component>> \o
  Flatten([i \in 1..Len(ar[component]) |->
    Flatten([j \in 1..Len(ar[component][i].list) |->
      collectComponents(ar[component][i].list[j], ar)])])

(***************************************************************************)
(* hydrateComponent: undefined (ok = FALSE) when the template key has no   *)
(* registered component, otherwise the new component with one area per     *)
(* area the template metadata declares, holding the children that          *)
(* hydrated.  made maps every component created to the fields hydration    *)
(* gives it.  A path is the list of its dot-separated parts.               *)
(***************************************************************************)
NoComponents == [x \in {} |-> <<>>]

\* no component (undefined)
Undefined == <<"", 0, 0>>

\* a component whose editBar and newBar are never replaced
newComponentWithBars(parent, path, from, recursiveInherit, map) ==
  [areas |-> map, parent |-> parent, path |-> path, inheritedFrom |-> from,
   editBar |-> "default", newBar |-> "default",
   indexInArea |-> -1, prevSibling |-> Undefined, nextSibling |-> Undefined]

\* new ComponentType(...) and the assignments that follow it: editBar is
\* replaced by () => '' under recursiveInherit, newBar under inheritedFrom;
\* indexInArea and the siblings are for the parent's loop to set
newComponent(parent, path, from, recursiveInherit, map) ==
  [areas |-> map, parent |-> parent, path |-> path, inheritedFrom |-> from,
   editBar |-> IF recursiveInherit THEN "empty" ELSE "default",
   newBar |-> IF from # "" THEN "empty" ELSE "default",
   indexInArea |-> -1, prevSibling |-> Undefined, nextSibling |-> Undefined]

\* an index that follows the position in the data instead of the position
\* among the children kept
indexInData(areaComponents, i) == i - 1

\* child.indexInArea = areaComponents.length
indexInArea(areaComponents, i) == Len(areaComponents)

\* the loop that sets prevSibling and nextSibling of the children of an area
linkSiblings(areaComponents, made) ==
  [n \in DOMAIN made |->
     IF n \in Range(areaComponents)
     THEN LET j == CHOOSE k \in 1..Len(areaComponents) : areaComponents[k] = n
          IN  [made[n] EXCEPT
                 !.prevSibling = IF j > 1 THEN areaComponents[j - 1] ELSE Undefined,
                 !.nextSibling = IF j < Len(areaComponents) THEN areaComponents[j + 1] ELSE Undefined]
     ELSE made[n]]

\* a child that was hydrated is given its index and pushed on
\* areaComponents; a child that was not (undefined) is skipped
pushChild(acc, id, i, child) ==
  IF child.ok
  THEN [kept |-> Append(acc.kept, id),
        made |-> [child.made EXCEPT ![id].indexInArea = indexInArea(acc.kept, i)] @@ acc.made]
  ELSE acc

RECURSIVE hydrateComponent(_, _, _, _, _)
RECURSIVE hydrateChildren(_, _, _, _, _, _, _)
\* the loop over componentData.areas[key] from entry i on; acc holds the
\* children kept so far (areaComponents) and the components made
hydrateChildren(list, key, i, component, path, from, acc) ==
  IF i > Len(list) THEN acc
  ELSE hydrateChildren(list, key, i + 1, component, path, from,
         pushChild(acc, list[i], i,
                   hydrateComponent(list[i], component,
                                    path \o <<"areas", key, ToString(i - 1)>>, from, from # "")))

\* component.areas.set(key, areaComponents), after the siblings are linked
areaSet(key, r) == [name |-> key, list |-> r.kept, made |-> linkSiblings(r.kept, r.made)]

\* one turn of the loop over the areas: the children of area key
hydrateArea(data, key, path, from) ==
  areaSet(key, hydrateChildren(IF key \in DataAreaNames(data) THEN DataArea(data, key) ELSE <<>>,
                               key, 1, data, path, from,
                               [kept |-> <<>>, made |-> NoComponents]))

\* the components made below the areas from i on
RECURSIVE madeBelow(_, _)
madeBelow(each, i) ==
  IF i > Len(each) THEN NoComponents ELSE each[i].made @@ madeBelow(each, i + 1)

\* the areas map of a component and the components made below it
areasMap(each) ==
  [map |-> [i \in 1..Len(each) |-> [name |-> each[i].name, list |-> each[i].list]],
   made |-> madeBelow(each, 1)]

\* a loop that also takes the area the page data holds on its own
areasOfData(data) ==
  templateByKey(templateKey(data)) \o (IF "junk" \in DataAreaNames(data) THEN <<"junk">> ELSE <<>>)

\* templateByKey[componentData.templateKey]?.areas?.map(a => a.name) ?? []
declaredAreas(data) == templateByKey(templateKey(data))

\* the loop over the areas the template metadata declares
hydrateAreas(data, path, from) ==
  areasMap([i \in 1..Len(declaredAreas(data)) |->
              hydrateArea(data, declaredAreas(data)[i], path, from)])

\* the component constructed, with the components made below it
constructed(componentData, parent, path, from, recursiveInherit, sub) ==
  [ok |-> TRUE,
   made |-> (componentData :> newComponent(parent, path, from, recursiveInherit, sub.map))
            @@ sub.made]

hydrateComponent(componentData, parent, path, from, recursiveInherit) ==
  IF templateKey(componentData) \notin DOMAIN templateRegistry.components
  THEN [ok |-> FALSE, made |-> NoComponents]
  ELSE constructed(componentData, parent, path, from, recursiveInherit,
                   hydrateAreas(componentData, path, from))

\* a hydratePage that builds a page without a page template
hydratePageUnchecked(pageData) ==
  constructed(pageData, Undefined, <<>>, "", FALSE, hydrateAreas(pageData, <<>>, ""))

\* hydratePage: throws (ok = FALSE) when the page's template key has no
\* registered page
hydratePage(pageData) ==
  IF templateKey(pageData) \notin DOMAIN templateRegistry.pages
  THEN [ok |-> FALSE, made |-> NoComponents]
  ELSE constructed(pageData, Undefined, <<>>, "", FALSE, hydrateAreas(pageData, <<>>, ""))

\* the areas of the components made
areasOf(made) == [n \in DOMAIN made |-> made[n].areas]

\* the other fields of a component made, and those of a component not yet made
fieldsOf(o) ==
  [parent |-> o.parent, path |-> o.path, editBar |-> o.editBar, newBar |-> o.newBar,
   indexInArea |-> o.indexInArea, prevSibling |-> o.prevSibling, nextSibling |-> o.nextSibling]

NoFields == fieldsOf(newComponent(Undefined, <<>>, "", FALSE, <<>>))

(***************************************************************************)
(* The error hook.  logError sets hadError on the component it is called   *)
(* on and on no other component.                                           *)
(***************************************************************************)
\* an error hook that leaves the flag alone
logErrorDropped(h, component) == h

logError(h, component) == [h EXCEPT ![component] = TRUE]

(***************************************************************************)
(* registerInherited as installed on a native component: the entry is      *)
(* recorded only when the component list is not empty.                     *)
(***************************************************************************)
registerInherited(reg, area, components, fromPageId, mode) ==
  IF Len(components) > 0
  THEN Append(reg, [area |-> area, components |-> components, mode |-> mode, fromPageId |-> fromPageId])
  ELSE reg

\* the fromPageId argument: one page id, or an array of page ids
PageId(id) == [array |-> FALSE, ids |-> <<id>>]
PageIds(ids) == [array |-> TRUE, ids |-> ids]

\* a lookup that takes the first page id for every component
fromPageIdFirst(entry, i) == entry.fromPageId.ids[1]

\* fromPageId[i] after a single id has been spread over the components
\* ("": undefined, past the end of an array)
fromPageIdAt(entry, i) ==
  IF ~entry.fromPageId.array THEN entry.fromPageId.ids[1]
  ELSE IF i <= Len(entry.fromPageId.ids) THEN entry.fromPageId.ids[i]
  ELSE ""

(***************************************************************************)
(* Splicing of the registered entries of component c after its fetch().    *)
(* s is [map, made, extra]: the areas map of c, the components hydrated so *)
(* far, and extraComponents.                                               *)
(***************************************************************************)
\* one turn of the loop over entry.components: the hydrated component is
\* spliced in at index i (top) or pushed (bottom, replace), and collected
\* with its descendants; a component not hydrated is skipped
spliceComponent(entry, i, cData, h, t) ==
  IF h.ok
  THEN [map |-> MapSet(t.map, entry.area,
                  IF entry.mode = "top" THEN Splice(MapGet(t.map, entry.area), i - 1, cData)
                  ELSE Append(MapGet(t.map, entry.area), cData)),
        made |-> h.made @@ t.made,
        extra |-> t.extra \o collectComponents(cData, areasOf(h.made))]
  ELSE t

RECURSIVE spliceComponents(_, _, _, _)
spliceComponents(c, entry, i, t) ==
  IF i > Len(entry.components) THEN t
  ELSE spliceComponents(c, entry, i + 1,
         spliceComponent(entry, i, entry.components[i],
                         hydrateComponent(entry.components[i], c, <<"inherited">>,
                                          fromPageIdAt(entry, i), FALSE),
                         t))

spliceEntry(c, entry, s) ==
  spliceComponents(c, entry, 1,
    [s EXCEPT !.map = IF ~MapHas(s.map, entry.area) \/ entry.mode = "replace"
                      THEN MapSet(s.map, entry.area, <<>>)
                      ELSE s.map])

RECURSIVE spliceRegistered(_, _, _, _)
spliceRegistered(c, reg, i, s) ==
  IF i > Len(reg) THEN s ELSE spliceRegistered(c, reg, i + 1, spliceEntry(c, reg[i], s))

(***************************************************************************)
(* What the templates' hooks may do.                                       *)
(***************************************************************************)
\* the area a component's fetch() registers inherited components into
RegisterArea(c) == IF c = Root THEN "main" ELSE "content"

\* the components whose fetch() may call registerInherited: the native ones
Registrants == NativeIds

\* the components whose fetch() may register a component of their own
ExtraRegistrants == {Native(1), Native(2)}

\* the area components registered one by one are added to
ExtraArea == "aside"

\* what such a fetch() registers: one component, at the bottom of an area
ExtraEntry(c) ==
  registerInherited(<<>>, ExtraArea, <<Extra(c[2])>>, PageId(FromPageId), "bottom")

\* the entries fetch() of c leaves in registered, with one call of
\* registerInherited: either one component of a render registers the
\* inherited list, or its first component alone in place of what the area
\* holds, or the first two native components register one component each
RegisterChoices(c) ==
  {<<>>}
  \cup (IF c \in Registrants /\ \A n \in AllIds : registered[n] = <<>>
        THEN {registerInherited(<<>>, RegisterArea(c), comps, fromPageId, mode) :
                comps \in {<<>>, InheritedData},
                fromPageId \in {PageId(FromPageId), PageIds(FromPageIds)},
                mode \in Modes}
             \cup {registerInherited(<<>>, RegisterArea(c), <<Inherited(1)>>,
                                     PageId(FromPageId), "replace")}
        ELSE {})
  \cup (IF /\ c \in ExtraRegistrants
           /\ \A n \in AllIds : registered[n] = <<>> \/ registered[n] = ExtraEntry(n)
        THEN {ExtraEntry(c)}
        ELSE {})

\* the context object renderPage starts the context phase with
InitialCtx == <<Root, 0>>

\* a call of setContext that hands on the object it used
cloneShared(object, c, i) == object

\* clone(renderCtx): a new object, equal to renderCtx, for the call of
\* setContext of component c for its area number i
clone(object, c, i) == <<c, i>>

\* what a setContext hook does with its argument: the default returns it
\* as it is, a panel either returns an advanced copy of it (advanceHeader)
\* or advances it in place and returns it, for the area of its own
\* components, and returns it as it is for an area added to it
HookKinds(c, areaName) ==
  IF templateKey(c) = "panel" /\ areaName = "content" THEN {"advance", "mutate"}
  ELSE {"default"}

\* children that are given the context of their parent
handedOnOwn(renderCtxOfParent, ctxForArea) == renderCtxOfParent

\* executeSetContext(c, renderCtxForArea): what the children of the area
\* are given
handedOn(renderCtxOfParent, ctxForArea) == ctxForArea

\* the object setContext returns: a copy made by the hook, or its argument
returned(how, arg, c, i) == IF how = "advance" THEN <<c, i>> ELSE arg

\* setContext returns the context it was given (the default); a panel
\* advances the header level for its area
setContext(c, ctx, areaName) == IF templateKey(c) = "panel" THEN ctx + 1 ELSE ctx

\* shouldFetchVariation: a quote has nothing to fetch for a variation
shouldFetchVariation(c, ext) == ext = "html" \/ templateKey(c) # "quote"

\* a fetch phase that calls fetch() of every component
toFetchAll(list, ext) == Range(list)

\* the components of the native list whose fetch() is called:
\* c.shouldFetchVariation(extension) ? await c.fetch() : {}
toFetch(list, ext) == {n \in Range(list) : shouldFetchVariation(n, ext)}

\* a further hook call may throw
MayThrow == Cardinality(threw) < MaxThrowing

\* the sets of components whose render() or renderVariation() throws
ThrowingChoices(candidates) ==
  {s \in SUBSET candidates : Cardinality(s) + Cardinality(threw) <= MaxThrowing}

Pending == [kind |-> "pending", error |-> "", body |-> <<>>]
Rejected(error) == [kind |-> "rejected", error |-> error, body |-> <<>>]
Returned(body) == [kind |-> "returned", error |-> "", body |-> body]

Idle == [state |-> "idle", area |-> 0]
Finished == [state |-> "done", area |-> 0]

(***************************************************************************)
(* Initial state: renderPage has been called.                              *)
(***************************************************************************)
Init ==
  /\ pc = "start"
  /\ templateRegistry \in TestRegistries
  /\ extension \in Extensions
  /\ editMode \in BOOLEAN
  /\ startup = NoCalls
  /\ hydrated = {}
  /\ areas = [n \in AllIds |-> <<>>]
  /\ inheritedFrom = [n \in AllIds |-> ""]
  /\ fields = [n \in AllIds |-> NoFields]
  /\ hadError = [n \in AllIds |-> FALSE]
  /\ fetched = [n \in AllIds |-> "unset"]
  /\ componentsIncludingPage = <<>>
  /\ componentsIncludingInherited = <<>>
  /\ fetchTask = [n \in AllIds |-> "idle"]
  /\ registered = [n \in AllIds |-> <<>>]
  /\ extraComponents = [n \in AllIds |-> <<>>]
  /\ secondary = [n \in AllIds |-> "idle"]
  /\ renderCtx = [n \in AllIds |-> 0]
  /\ ctxObject = [n \in AllIds |-> <<>>]
  /\ renderCtxForArea = [n \in AllIds |-> <<>>]
  /\ ctxTask = [n \in AllIds |-> Idle]
  /\ renderedAreas = [n \in AllIds |-> <<>>]
  /\ invoked = {}
  /\ threw = {}
  /\ headContent = [set |-> FALSE, dgEditingBlocks |-> <<>>, tags |-> <<>>]
  /\ status = 0
  /\ result = Pending

(***************************************************************************)
(* api.getTemplates() rejects: renderPage rejects.                         *)
(***************************************************************************)
GetTemplatesFails ==
  /\ pc = "start"
  /\ pc' = "done"
  /\ result' = Rejected("getTemplates")
  /\ UNCHANGED <<threw, templateRegistry, startup, fields, extension, editMode, hydrated, areas, inheritedFrom,
                 hadError, fetched, componentsIncludingPage, componentsIncludingInherited,
                 fetchTask, registered, extraComponents, secondary, renderCtx, ctxObject, renderCtxForArea, ctxTask,
                 renderedAreas, invoked, headContent, status>>

(***************************************************************************)
(* renderPage up to the first suspension of the fetch phase: hydratePage   *)
(* (which throws for an unregistered page template), collectComponents,    *)
(* then the synchronous start of every fetch task: fetch() is invoked on   *)
(* the components whose shouldFetchVariation(extension) is true; the       *)
(* others get {} and have nothing to splice.                               *)
(***************************************************************************)
StartRender ==
  /\ pc = "start"
  /\ \E page \in {hydratePage(Root)} :
       IF ~page.ok
       THEN /\ pc' = "done"
            /\ result' = Rejected("Unable to render page. Missing template implementation.")
            /\ UNCHANGED <<hydrated, areas, fields, componentsIncludingPage,
                           componentsIncludingInherited, fetchTask, fetched, invoked>>
       ELSE \E list \in {collectComponents(Root, areasOf(page.made) @@ areas)} :
            \E shouldFetch \in {toFetch(list, extension)} :
              /\ pc' = "fetch"
              /\ hydrated' = DOMAIN page.made
              /\ areas' = areasOf(page.made) @@ areas
              /\ fields' = [n \in AllIds |->
                              IF n \in DOMAIN page.made THEN fieldsOf(page.made[n]) ELSE fields[n]]
              /\ componentsIncludingPage' = list
              /\ componentsIncludingInherited' = list
              /\ fetchTask' = [n \in AllIds |->
                                 IF n \in shouldFetch THEN "fetching"
                                 ELSE IF n \in Range(list) THEN "done" ELSE "idle"]
              /\ fetched' = [n \in AllIds |->
                               IF n \in Range(list) \ shouldFetch THEN "empty" ELSE "unset"]
              /\ invoked' = {<<"fetch", n, "">> : n \in shouldFetch}
              /\ UNCHANGED result
  /\ UNCHANGED <<threw, templateRegistry, startup, extension, editMode, inheritedFrom, hadError,
                 registered, extraComponents, secondary, renderCtx, ctxObject, renderCtxForArea, ctxTask,
                 renderedAreas, headContent, status>>

(***************************************************************************)
(* fetch() of native component c resolves, having registered the entries   *)
(* reg.  The task continues synchronously: it splices the registered       *)
(* components into the areas of c, appends them to the master list and     *)
(* invokes fetch() on each of them.                                        *)
(***************************************************************************)
FetchResolves(c) ==
  /\ pc = "fetch"
  /\ fetchTask[c] = "fetching"
  /\ \E reg \in RegisterChoices(c) :
       \E s \in {spliceRegistered(c, reg, 1,
                  [map |-> areas[c], made |-> NoComponents, extra |-> <<>>])} :
           /\ registered' = [registered EXCEPT ![c] = reg]
           /\ fetched' = [fetched EXCEPT ![c] = "data"]
           /\ areas' = [n \in AllIds |->
                          IF n = c THEN s.map
                          ELSE IF n \in DOMAIN s.made THEN s.made[n].areas ELSE areas[n]]
           /\ inheritedFrom' = [n \in AllIds |->
                          IF n \in DOMAIN s.made THEN s.made[n].inheritedFrom ELSE inheritedFrom[n]]
           /\ fields' = [n \in AllIds |->
                          IF n \in DOMAIN s.made THEN fieldsOf(s.made[n]) ELSE fields[n]]
           /\ hydrated' = hydrated \cup DOMAIN s.made
           /\ extraComponents' = [extraComponents EXCEPT ![c] = s.extra]
           /\ componentsIncludingInherited' = componentsIncludingInherited \o s.extra
           /\ secondary' = [n \in AllIds |-> IF n \in Range(s.extra) THEN "fetching" ELSE secondary[n]]
           /\ invoked' = invoked \cup {<<"fetch", n, "">> : n \in Range(s.extra)}
           /\ fetchTask' = [fetchTask EXCEPT ![c] = "secondary"]
  /\ UNCHANGED <<threw, pc, templateRegistry, startup, extension, editMode, hadError, componentsIncludingPage,
                 renderCtx, ctxObject, renderCtxForArea, ctxTask, renderedAreas, headContent, status, result>>

(***************************************************************************)
(* fetch() of native component c throws or rejects: the task's catch       *)
(* clause calls c.logError.                                                *)
(***************************************************************************)
\* a task that splices what fetch() registered before it threw
FetchRejectsSplicing(c) ==
  /\ pc = "fetch"
  /\ fetchTask[c] = "fetching"
  /\ MayThrow
  /\ \E reg \in RegisterChoices(c) :
       \E s \in {spliceRegistered(c, reg, 1,
                  [map |-> areas[c], made |-> NoComponents, extra |-> <<>>])} :
           /\ registered' = [registered EXCEPT ![c] = reg]
           /\ areas' = [n \in AllIds |->
                          IF n = c THEN s.map
                          ELSE IF n \in DOMAIN s.made THEN s.made[n].areas ELSE areas[n]]
           /\ inheritedFrom' = [n \in AllIds |->
                          IF n \in DOMAIN s.made THEN s.made[n].inheritedFrom ELSE inheritedFrom[n]]
           /\ fields' = [n \in AllIds |->
                          IF n \in DOMAIN s.made THEN fieldsOf(s.made[n]) ELSE fields[n]]
           /\ hydrated' = hydrated \cup DOMAIN s.made
           /\ extraComponents' = [extraComponents EXCEPT ![c] = s.extra]
           /\ componentsIncludingInherited' = componentsIncludingInherited \o s.extra
  /\ hadError' = logError(hadError, c)
  /\ threw' = threw \cup {<<"fetch", c>>}
  /\ fetchTask' = [fetchTask EXCEPT ![c] = "failed"]
  /\ UNCHANGED <<pc, templateRegistry, startup, extension, editMode, fetched,
                 componentsIncludingPage, secondary, renderCtx, ctxObject, renderCtxForArea, ctxTask,
                 renderedAreas, invoked, headContent, status, result>>

FetchRejects(c) ==
  /\ pc = "fetch"
  /\ fetchTask[c] = "fetching"
  /\ MayThrow
  /\ hadError' = logError(hadError, c)
  /\ threw' = threw \cup {<<"fetch", c>>}
  /\ fetchTask' = [fetchTask EXCEPT ![c] = "failed"]
  /\ UNCHANGED <<pc, templateRegistry, startup, fields, extension, editMode, hydrated, areas, inheritedFrom,
                 fetched, componentsIncludingPage, componentsIncludingInherited,
                 registered, extraComponents, secondary, renderCtx, ctxObject, renderCtxForArea, ctxTask,
                 renderedAreas, invoked, headContent, status, result>>

(***************************************************************************)
(* The secondary round: fetch() of inherited component x resolves, or      *)
(* rejects and is caught by the inner catch clause, which calls            *)
(* x.logError.                                                             *)
(***************************************************************************)
\* a callback that still queues the components for the master list
registerInheritedQueued(s, area, components, fromPageId, mode) ==
  [s EXCEPT !.extra = @ \o components]

\* c.registerInherited = () => {} of a spliced component; s is the state
\* the callback of a native component leads to a change of
registerInheritedDisabled(s, area, components, fromPageId, mode) == s

\* fetch() of a spliced component calls its registerInherited as that of a
\* native one does
SecondaryResolves(x) ==
  /\ pc = "fetch"
  /\ secondary[x] = "fetching"
  /\ LET s == registerInheritedDisabled([map |-> areas[x], made |-> NoComponents, extra |-> <<>>],
                                        RegisterArea(x), InheritedData, PageId(FromPageId), "top")
     IN  /\ areas' = [areas EXCEPT ![x] = s.map]
         /\ componentsIncludingInherited' = componentsIncludingInherited \o s.extra
  /\ invoked' = invoked \cup {<<"registerInherited", x, RegisterArea(x)>>}
  /\ fetched' = [fetched EXCEPT ![x] = "data"]
  /\ secondary' = [secondary EXCEPT ![x] = "resolved"]
  /\ UNCHANGED <<threw, pc, templateRegistry, startup, fields, extension, editMode, hydrated,
                 inheritedFrom, hadError, componentsIncludingPage,
                 fetchTask, registered, extraComponents, renderCtx, ctxObject, renderCtxForArea, ctxTask,
                 renderedAreas, headContent, status, result>>

\* without the inner catch clause the task of the registering component catches
secondaryCatchOuter(registrant, x) == registrant

\* the component the catch clause around an inherited component's fetch() reports to
secondaryCatch(registrant, x) == x

SecondaryRejects(x) ==
  /\ pc = "fetch"
  /\ secondary[x] = "fetching"
  /\ MayThrow
  /\ \E c \in AllIds :
       /\ x \in Range(extraComponents[c])
       /\ hadError' = logError(hadError, secondaryCatch(c, x))
  /\ threw' = threw \cup {<<"fetch", x>>}
  /\ secondary' = [secondary EXCEPT ![x] = "rejected"]
  /\ UNCHANGED <<pc, templateRegistry, startup, fields, extension, editMode, hydrated, areas, inheritedFrom,
                 fetched, componentsIncludingPage, componentsIncludingInherited,
                 fetchTask, registered, extraComponents, renderCtx, ctxObject, renderCtxForArea, ctxTask,
                 renderedAreas, invoked, headContent, status, result>>

\* a join that no task ever passes
TaskSettledNever(c) == FALSE

\* a join that does not wait
TaskSettledAlways(c) == TRUE

\* the fetch task of native component c has run to its end
TaskSettled(c) ==
  \/ fetchTask[c] \in {"done", "failed"}
  \/ /\ fetchTask[c] = "secondary"
     /\ \A x \in Range(extraComponents[c]) : secondary[x] \in {"resolved", "rejected"}


(***************************************************************************)
(* executeSetContext(component, ctx) up to its first suspension: the       *)
(* component gets renderCtx; a component in error, or without areas, runs  *)
(* through its loop without calling setContext; any other calls setContext *)
(* for its first area.                                                     *)
(***************************************************************************)
\* a loop that does not look at hadError
enterContextAlways(h, ar, component) ==
  IF Len(ar[component]) = 0 THEN Finished
  ELSE [state |-> "calling", area |-> 1]

enterContext(h, ar, component) ==
  IF h[component] \/ Len(ar[component]) = 0 THEN Finished
  ELSE [state |-> "calling", area |-> 1]

contextCalls(tasks, components) ==
  {<<"setContext", n, areas[n][tasks[n].area].name>> :
     n \in {m \in components : tasks[m].state = "calling"}}

(***************************************************************************)
(* The fetch phase has ended (Promise.all over the fetch tasks resolved).  *)
(* A page root in error aborts the render with status 500 and an empty     *)
(* body; otherwise the context phase starts at the root with               *)
(* { headerLevel: 1 }.                                                     *)
(***************************************************************************)
\* a pipeline that goes on whatever the state of the root
rootErrorCheckSkipped(h) == FALSE

rootErrorCheck(h) == h[Root]

FetchPhaseEnds ==
  /\ pc = "fetch"
  /\ \A c \in Range(componentsIncludingPage) : TaskSettled(c)
  /\ IF rootErrorCheck(hadError)
     THEN /\ status' = 500
          /\ result' = Returned(EmptyString)
          /\ pc' = "done"
          /\ UNCHANGED <<renderCtx, ctxObject, renderCtxForArea, ctxTask, invoked>>
     ELSE LET tasks == [ctxTask EXCEPT ![Root] = enterContext(hadError, areas, Root)]
          IN  /\ renderCtx' = [renderCtx EXCEPT ![Root] = 1]
              /\ ctxObject' = [ctxObject EXCEPT ![Root] = InitialCtx]
              /\ UNCHANGED renderCtxForArea
              /\ ctxTask' = tasks
              /\ invoked' = invoked \cup contextCalls(tasks, {Root})
              /\ pc' = "context"
              /\ UNCHANGED <<status, result>>
  /\ UNCHANGED <<threw, templateRegistry, startup, fields, extension, editMode, hydrated, areas, inheritedFrom,
                 hadError, fetched, componentsIncludingPage, componentsIncludingInherited,
                 fetchTask, registered, extraComponents, secondary,
                 renderedAreas, headContent>>

(***************************************************************************)
(* setContext of component c for its current area resolves with ctx:       *)
(* executeSetContext starts for every child of that area with ctx.         *)
(***************************************************************************)
ContextResolves(c) ==
  /\ pc = "context"
  /\ ctxTask[c].state = "calling"
  /\ \E i \in {ctxTask[c].area} :
     \E how \in HookKinds(c, areas[c][i].name) :
     \E arg \in {clone(ctxObject[c], c, i)} :
       LET ctx == IF how = "default" THEN renderCtx[c]
                  ELSE setContext(c, renderCtx[c], areas[c][i].name)
           children == Range(areas[c][i].list)
           tasks == [n \in AllIds |->
                       IF n \in children THEN enterContext(hadError, areas, n)
                       ELSE IF n = c THEN [state |-> "children", area |-> i]
                       ELSE ctxTask[n]]
       IN  /\ renderCtx' = [n \in AllIds |->
                              IF n \in children THEN handedOn(renderCtx[c], ctx)
                              ELSE IF how = "mutate" /\ ctxObject[n] = arg THEN ctx
                              ELSE renderCtx[n]]
           /\ ctxObject' = [n \in AllIds |->
                              IF n \in children THEN returned(how, arg, c, i)
                              ELSE ctxObject[n]]
           /\ renderCtxForArea' = [renderCtxForArea EXCEPT ![c] =
                                     Append(@, [advanced |-> how # "default", headerLevel |-> ctx])]
           /\ ctxTask' = tasks
           /\ invoked' = invoked \cup contextCalls(tasks, children)
  /\ UNCHANGED <<threw, pc, templateRegistry, startup, fields, extension, editMode, hydrated, areas, inheritedFrom,
                 hadError, fetched, componentsIncludingPage, componentsIncludingInherited,
                 fetchTask, registered, extraComponents, secondary,
                 renderedAreas, headContent, status, result>>

(***************************************************************************)
(* setContext of component c throws or rejects: the catch clause calls     *)
(* c.logError, and the loop skips the remaining areas of c.                *)
(***************************************************************************)
ContextRejects(c) ==
  /\ pc = "context"
  /\ ctxTask[c].state = "calling"
  /\ MayThrow
  /\ hadError' = logError(hadError, c)
  /\ threw' = threw \cup {<<"setContext", c>>}
  /\ ctxTask' = [ctxTask EXCEPT ![c] = Finished]
  /\ UNCHANGED <<pc, templateRegistry, startup, fields, extension, editMode, hydrated, areas, inheritedFrom,
                 fetched, componentsIncludingPage, componentsIncludingInherited,
                 fetchTask, registered, extraComponents, secondary, renderCtx, ctxObject, renderCtxForArea,
                 renderedAreas, invoked, headContent, status, result>>

(***************************************************************************)
(* Every child of the current area of c has finished executeSetContext:    *)
(* the loop of c goes on to its next area, or ends.                        *)
(***************************************************************************)
ContextAdvances(c) ==
  /\ pc = "context"
  /\ ctxTask[c].state = "children"
  /\ \A n \in Range(areas[c][ctxTask[c].area].list) : ctxTask[n].state = "done"
  /\ LET next == ctxTask[c].area + 1
         tasks == [ctxTask EXCEPT ![c] =
                     IF next > Len(areas[c]) \/ hadError[c] THEN Finished
                     ELSE [state |-> "calling", area |-> next]]
     IN  /\ ctxTask' = tasks
         /\ invoked' = invoked \cup contextCalls(tasks, {c})
  /\ UNCHANGED <<threw, pc, templateRegistry, startup, fields, extension, editMode, hydrated, areas, inheritedFrom,
                 hadError, fetched, componentsIncludingPage, componentsIncludingInherited,
                 fetchTask, registered, extraComponents, secondary, renderCtx, ctxObject, renderCtxForArea,
                 renderedAreas, headContent, status, result>>


(***************************************************************************)
(* The render phase.  It is synchronous, so it is one step; st threads the *)
(* state it changes through the recursion: [hadError, renderedAreas,       *)
(* invoked, threw, thrown], thrown meaning that an exception propagates.   *)
(* throwing is the set of components whose render() (or renderVariation()) *)
(* throws.                                                                 *)
(***************************************************************************)
\* the outputs of the rendered areas, joined
joinAreas(rendered) ==
  Flatten([i \in 1..Len(rendered) |->
    Flatten([j \in 1..Len(rendered[i].list) |-> rendered[i].list[j].output])])

\* a piece of markup, and a path as markup: its parts joined with dots
Text(string) == <<<<string, 0, 0>>>>

joinPath(path) ==
  Flatten([i \in 1..Len(path) |-> IF i = 1 THEN Text(path[i]) ELSE Text(".") \o Text(path[i])])

\* htmlEncode: the five special characters are replaced by their entities
htmlEncode(text) ==
  [i \in 1..Len(text) |->
     IF text[i][1] = "&" THEN <<"&amp;", 0, 0>>
     ELSE IF text[i][1] = "<" THEN <<"&lt;", 0, 0>>
     ELSE IF text[i][1] = ">" THEN <<"&gt;", 0, 0>>
     ELSE IF text[i][1] = "\"" THEN <<"&quot;", 0, 0>>
     ELSE IF text[i][1] = "'" THEN <<"&#39;", 0, 0>>
     ELSE text[i]]

\* Component.editBar and Component.newBar, the hooks the rendering server
\* installs
editBar(path, opts) ==
  IF ~opts.editMode THEN EmptyString
  ELSE IF opts.inheritedFrom # ""
  THEN Text("<dg-inherit-bar inherited-from=") \o htmlEncode(Text(opts.inheritedFrom)) \o Text("></dg-inherit-bar>")
  ELSE Text("<dg-edit-bar data-path=") \o htmlEncode(joinPath(path)) \o Text("></dg-edit-bar>")

\* a new-bar hook that ignores the mode
newBarAlways(path, opts) ==
  Text("<dg-new-bar data-path=") \o htmlEncode(joinPath(path)) \o Text("></dg-new-bar>")

newBar(path, opts) ==
  IF ~opts.editMode THEN EmptyString
  ELSE Text("<dg-new-bar data-path=") \o htmlEncode(joinPath(path)) \o Text("></dg-new-bar>")

\* this.editBar() and this.newBar(areaName) of a component: the function
\* hydration replaced it by, or else the hook, called with the component's
\* path, mode and inheritedFrom
componentEditBar(component) ==
  IF fields[component].editBar = "empty" THEN EmptyString
  ELSE editBar(fields[component].path,
               [editMode |-> editMode, inheritedFrom |-> inheritedFrom[component]])

componentNewBar(component, areaName) ==
  IF fields[component].newBar = "empty" THEN EmptyString
  ELSE newBar(fields[component].path \o <<"areas", areaName>>, [editMode |-> editMode])

\* the template's render(): a page puts the new bar of its area main after
\* the components of the area, a link or a panel starts with its edit bar,
\* a quote has no bar
render(component, rendered) ==
  IF templateKey(component) = "keyp1"
  THEN <<component>> \o joinAreas(rendered) \o componentNewBar(component, "main")
  ELSE IF templateKey(component) \in {"quote", "horizontalrule", "textimage"}
  THEN <<component>> \o joinAreas(rendered)
  ELSE componentEditBar(component) \o <<component>> \o joinAreas(rendered)

\* the template's renderVariation(): the component's own text around the
\* outputs of its rendered areas
variationOutput(component, rendered) == <<component>> \o joinAreas(rendered)

\* the test at the head of renderComponent that skips a component in error
renderShortCircuitNever(h, component) == FALSE

renderShortCircuit(h, component) == h[component]

\* what renderComponent returns for a component in error
errorOutput(edit) == IF edit THEN Placeholder ELSE EmptyString

\* render() without a catch clause: the exception propagates
renderUncaught(component, st) ==
  [output |-> EmptyString, st |-> [st EXCEPT !.thrown = TRUE]]

\* a catch clause that does not call logError
renderCatchUnlogged(component, st) ==
  [output |-> errorOutput(editMode), st |-> st]

\* the catch clause of renderComponent
renderCatch(component, st) ==
  [output |-> errorOutput(editMode),
   st |-> [st EXCEPT !.hadError = logError(@, component)]]

\* the catch clause of renderComponent used in renderVariation
variationCatchAsRender(component, st) ==
  [output |-> errorOutput(editMode),
   st |-> [st EXCEPT !.hadError = logError(@, component)]]

\* the catch clause of renderVariation
variationCatch(component, st) ==
  [output |-> EmptyString,
   st |-> [st EXCEPT !.hadError = logError(@, component)]]

RECURSIVE renderComponent(_, _, _)
RECURSIVE renderVariation(_, _, _)
RECURSIVE renderList(_, _, _, _, _)
RECURSIVE renderAreas(_, _, _, _, _)

\* a map that renders no child
renderListNone(variation, list, i, st, throwing) == [list |-> <<>>, st |-> st]

\* list.map(c => ({ output: ..., component: c })) from index i on
renderList(variation, list, i, st, throwing) ==
  IF i > Len(list) \/ st.thrown THEN [list |-> <<>>, st |-> st]
  ELSE LET r == IF variation THEN renderVariation(list[i], st, throwing)
                ELSE renderComponent(list[i], st, throwing)
           rest == renderList(variation, list, i + 1, r.st, throwing)
       IN  [list |-> <<[output |-> r.output, component |-> list[i]]>> \o rest.list,
            st |-> rest.st]

\* the loop over component.areas from entry i on
renderAreas(variation, map, i, st, throwing) ==
  IF i > Len(map) \/ st.thrown THEN [map |-> <<>>, st |-> st]
  ELSE LET r == renderList(variation, map[i].list, 1, st, throwing)
           rest == renderAreas(variation, map, i + 1, r.st, throwing)
       IN  [map |-> <<[name |-> map[i].name, list |-> r.list]>> \o rest.map,
            st |-> rest.st]

renderComponent(component, st, throwing) ==
  IF renderShortCircuit(st.hadError, component) THEN [output |-> errorOutput(editMode), st |-> st]
  ELSE LET r == renderAreas(FALSE, areas[component], 1, st, throwing)
           st1 == [r.st EXCEPT !.renderedAreas[component] = r.map]
           st2 == [st1 EXCEPT !.invoked = @ \cup {<<"render", component, "">>}]
       IN  IF st1.thrown THEN [output |-> EmptyString, st |-> st1]
           ELSE IF component \in throwing
                THEN renderCatch(component, [st2 EXCEPT !.threw = @ \cup {<<"render", component>>}])
           ELSE [output |-> render(component, r.map), st |-> st2]

renderVariation(component, st, throwing) ==
  IF st.hadError[component] THEN [output |-> EmptyString, st |-> st]
  ELSE LET r == renderAreas(TRUE, areas[component], 1, st, throwing)
           st1 == [r.st EXCEPT !.renderedAreas[component] = r.map]
           st2 == [st1 EXCEPT !.invoked = @ \cup {<<"renderVariation", component, "">>}]
       IN  IF st1.thrown THEN [output |-> EmptyString, st |-> st1]
           ELSE IF component \in throwing
                THEN variationCatch(component, [st2 EXCEPT !.threw = @ \cup {<<"renderVariation", component>>}])
           ELSE [output |-> variationOutput(component, r.map), st |-> st2]

\* a pipeline that never takes the variation branch
isVariationNever(ext) == FALSE

\* the test that sends renderPage to renderVariation instead of the render phase
isVariation(ext) == ext # "html"

\* the components a render()/renderVariation() failure can be chosen for
Renderable == {n \in Range(collectComponents(Root, areas)) : ~hadError[n]}

RenderState == [hadError |-> hadError, renderedAreas |-> renderedAreas,
                invoked |-> invoked, threw |-> threw, thrown |-> FALSE]

\* a list left as it is
DedupeNot(list) == list

\* Array.from(new Set(list)): the first occurrence of each element, in order
RECURSIVE Dedupe(_)
Dedupe(list) ==
  IF list = <<>> THEN <<>>
  ELSE LET front == Dedupe(SubSeq(list, 1, Len(list) - 1))
           last == list[Len(list)]
       IN  IF last \in Range(front) THEN front ELSE Append(front, last)

\* component.cssBlocks(): the names of the blocks its template declares; a
\* quote also asks for a block no template declares
cssBlocks(component) ==
  IF templateKey(component) = "keyp1" THEN <<"blanktemplate">>
  ELSE IF templateKey(component) = "link" THEN <<"linktemplate">>
  ELSE IF templateKey(component) = "panel" THEN <<"richtext", "paneledit">>
  ELSE IF templateKey(component) = "horizontalrule" THEN <<"horizontalrule">>
  ELSE IF templateKey(component) = "textimage" THEN <<"textimage">>
  ELSE <<"quote", "roboto", "legacy">>

\* component.jsBlocks(): the page asks for its block in edit mode only
jsBlocks(component) ==
  IF templateKey(component) = "keyp1"
  THEN IF editMode THEN <<"blanktemplate_admin">> ELSE <<>>
  ELSE IF templateKey(component) = "panel" THEN <<"panel">>
  ELSE <<>>

Tag(tag, dir, name) == [tag |-> tag, dir |-> dir, name |-> name]

\* editModeIncludes(): the font, the script and the style sheet of the editor
editModeIncludes ==
  <<Tag("stylesheet", "fonts.googleapis.com", "css2"),
    Tag("script", ".editing", "edit"),
    Tag("stylesheet", ".editing", "edit")>>

\* a partition that takes every block for a normal one
isNormalCssBlockAlways(block) == TRUE

\* cssBlocks.filter(b => !b.block.targetsEditBars)
isNormalCssBlock(block) == ~block.targetsEditBars

(***************************************************************************)
(* pageComponent.headContent: in edit mode the editor's includes and the   *)
(* names of the blocks that target the edit bars; then one style sheet     *)
(* link per registered block that does not target the edit bars, one       *)
(* preload link per font file of those blocks, one script per registered   *)
(* JS block.                                                               *)
(***************************************************************************)
assembleHead(master) ==
  LET registeredCss(name) == name \in DOMAIN templateRegistry.cssblocks
      registeredJs(name) == name \in DOMAIN templateRegistry.jsblocks
      targetsEditBars(name) == templateRegistry.cssblocks[name].targetsEditBars
      normal(name) == isNormalCssBlock(templateRegistry.cssblocks[name])
      fontsOf(name) == templateRegistry.cssblocks[name].fontfiles
      cssBlockNames == Dedupe(Flatten([i \in 1..Len(master) |-> cssBlocks(master[i])]))
      found == SelectSeq(cssBlockNames, registeredCss)
      normalCssBlocks == SelectSeq(found, normal)
      editCssBlocks == SelectSeq(found, targetsEditBars)
      fontfiles == Dedupe(Flatten([i \in 1..Len(normalCssBlocks) |-> fontsOf(normalCssBlocks[i])]))
      jsBlockNames == SelectSeq(Dedupe(Flatten([i \in 1..Len(master) |-> jsBlocks(master[i])])), registeredJs)
  IN  [set |-> TRUE,
       dgEditingBlocks |-> IF editMode THEN editCssBlocks ELSE <<>>,
       tags |-> (IF editMode THEN editModeIncludes ELSE <<>>)
                \o [i \in 1..Len(normalCssBlocks) |-> Tag("stylesheet", ".resources", normalCssBlocks[i])]
                \o [i \in 1..Len(fontfiles) |-> Tag("preload", "", fontfiles[i])]
                \o [i \in 1..Len(jsBlockNames) |-> Tag("script", ".resources", jsBlockNames[i])]]

(***************************************************************************)
(* The context phase has ended and a variation was requested: the result   *)
(* is renderVariation of the page root.                                    *)
(***************************************************************************)
RenderVariationPhase ==
  /\ pc = "context"
  /\ ctxTask[Root].state = "done"
  /\ isVariation(extension)
  /\ \E throwing \in ThrowingChoices(Renderable) :
       \E r \in {renderVariation(Root, RenderState, throwing)} :
           /\ hadError' = r.st.hadError
           /\ renderedAreas' = r.st.renderedAreas
           /\ invoked' = r.st.invoked
           /\ threw' = r.st.threw
           /\ result' = IF r.st.thrown THEN Rejected("renderVariation") ELSE Returned(r.output)
  /\ pc' = "done"
  /\ UNCHANGED <<templateRegistry, startup, fields, extension, editMode, hydrated, areas, inheritedFrom,
                 fetched, componentsIncludingPage, componentsIncludingInherited,
                 fetchTask, registered, extraComponents, secondary, renderCtx, ctxObject, renderCtxForArea, ctxTask,
                 headContent, status>>

(***************************************************************************)
(* The context phase has ended and html was requested: headContent is      *)
(* assembled from the master list, then the result is renderComponent of   *)
(* the page root, with status 500 when the root is in error afterwards.    *)
(***************************************************************************)
RenderPhase ==
  /\ pc = "context"
  /\ ctxTask[Root].state = "done"
  /\ ~isVariation(extension)
  /\ headContent' = assembleHead(componentsIncludingInherited)
  /\ \E throwing \in ThrowingChoices(Renderable) :
       \E r \in {renderComponent(Root, RenderState, throwing)} :
           /\ hadError' = r.st.hadError
           /\ renderedAreas' = r.st.renderedAreas
           /\ invoked' = r.st.invoked
           /\ threw' = r.st.threw
           /\ status' = IF r.st.hadError[Root] THEN 500 ELSE status
           /\ result' = IF r.st.thrown THEN Rejected("render") ELSE Returned(r.output)
  /\ pc' = "done"
  /\ UNCHANGED <<templateRegistry, startup, fields, extension, editMode, hydrated, areas, inheritedFrom,
                 fetched, componentsIncludingPage, componentsIncludingInherited,
                 fetchTask, registered, extraComponents, secondary, renderCtx, ctxObject, renderCtxForArea, ctxTask>>

Next ==
  \/ GetTemplatesFails
  \/ StartRender
  \/ \E c \in AllIds : FetchResolves(c)
  \/ \E c \in AllIds : FetchRejects(c)
  \/ \E x \in AllIds : SecondaryResolves(x)
  \/ \E x \in AllIds : SecondaryRejects(x)
  \/ FetchPhaseEnds
  \/ \E c \in AllIds : ContextResolves(c)
  \/ \E c \in AllIds : ContextRejects(c)
  \/ \E c \in AllIds : ContextAdvances(c)
  \/ RenderVariationPhase
  \/ RenderPhase

Spec == Init /\ [][Next]_vars

(***************************************************************************)
(* The start of the server: addTemplate and addProvider are called on a    *)
(* new registry, and the calls run concurrently (Promise.all): a call runs *)
(* up to an await, and goes on when what it awaits has resolved.           *)
(***************************************************************************)
\* number of addTemplate and addProvider calls
MaxCalls == 3

\* the template classes and resource providers handed to the server: two
\* page templates and two component templates that share a key, blocks
\* and files that share names, with and without versions
PageA ==
  [name |-> "PageA", templateKey |-> "keyp1", isPage |-> TRUE,
   jsBlocks |-> <<>>, files |-> <<>>,
   cssBlocks |-> <<CSSBlock("shared", <<1, 0, 0>>, FALSE, <<>>)>>]
PageB ==
  [name |-> "PageB", templateKey |-> "keyp1", isPage |-> TRUE,
   jsBlocks |-> <<JSBlock("lib", NoVersion)>>, files |-> <<>>,
   cssBlocks |-> <<CSSBlock("shared", <<1, 0, 0>>, FALSE, <<>>)>>]
ComponentC ==
  [name |-> "ComponentC", templateKey |-> "richtext", isPage |-> FALSE,
   jsBlocks |-> <<JSBlock("lib", <<1, 0, 0>>)>>,
   files |-> <<FileDeclaration("font", <<1, 0, 0>>, FALSE)>>,
   cssBlocks |-> <<CSSBlock("shared", <<2, 0, 0>>, FALSE, <<"font">>)>>]
ComponentD ==
  [name |-> "ComponentD", templateKey |-> "richtext", isPage |-> FALSE,
   jsBlocks |-> <<JSBlock("lib", <<1, 1, 0>>)>>,
   files |-> <<FileDeclaration("font", <<2, 0, 0>>, TRUE)>>,
   cssBlocks |-> <<CSSBlock("shared", NoVersion, FALSE, <<>>)>>]
Unkeyed ==
  [name |-> "Unkeyed", templateKey |-> "", isPage |-> FALSE,
   jsBlocks |-> <<>>, files |-> <<>>, cssBlocks |-> <<>>]
Provider ==
  [name |-> "Provider", templateKey |-> "", isPage |-> FALSE,
   jsBlocks |-> <<>>,
   files |-> <<FileDeclaration("font", NoVersion, FALSE)>>,
   cssBlocks |-> <<CSSBlock("shared", <<1, 1, 0>>, FALSE, <<>>)>>]

Templates == {PageA, PageB, ComponentC, ComponentD, Unkeyed}
Providers == {Provider}

\* the file systems the server may start on: every CSS file can be read,
\* or the file of the block "shared" cannot
Unreadables == {{}, {"shared"}}

StartupInit ==
  /\ pc = "startup"
  /\ templateRegistry = NewRegistry
  /\ startup \in {[NoCalls EXCEPT !.unreadable = u] : u \in Unreadables}
  /\ extension = "html"
  /\ editMode = FALSE
  /\ hydrated = {}
  /\ areas = [n \in AllIds |-> <<>>]
  /\ inheritedFrom = [n \in AllIds |-> ""]
  /\ fields = [n \in AllIds |-> NoFields]
  /\ hadError = [n \in AllIds |-> FALSE]
  /\ fetched = [n \in AllIds |-> "unset"]
  /\ componentsIncludingPage = <<>>
  /\ componentsIncludingInherited = <<>>
  /\ fetchTask = [n \in AllIds |-> "idle"]
  /\ registered = [n \in AllIds |-> <<>>]
  /\ extraComponents = [n \in AllIds |-> <<>>]
  /\ secondary = [n \in AllIds |-> "idle"]
  /\ renderCtx = [n \in AllIds |-> 0]
  /\ ctxObject = [n \in AllIds |-> <<>>]
  /\ renderCtxForArea = [n \in AllIds |-> <<>>]
  /\ ctxTask = [n \in AllIds |-> Idle]
  /\ renderedAreas = [n \in AllIds |-> <<>>]
  /\ invoked = {}
  /\ threw = {}
  /\ headContent = [set |-> FALSE, dgEditingBlocks |-> <<>>, tags |-> <<>>]
  /\ status = 0
  /\ result = Pending

RenderUnchanged ==
  UNCHANGED <<pc, extension, editMode, hydrated, areas, inheritedFrom, fields, hadError,
              fetched, componentsIncludingPage, componentsIncludingInherited, fetchTask,
              registered, extraComponents, secondary, renderCtx, ctxObject, renderCtxForArea, ctxTask, renderedAreas,
              invoked, threw, headContent, status, result>>

\* addTemplate(template) is called and runs up to its first await: it
\* throws for a template without a key, otherwise stores the template and
\* calls addProvider
\* a test that takes every template as one with a key
hasTemplateKeyAlways(template) == TRUE

\* the test of addTemplate: template.templateKey is defined and not empty
hasTemplateKey(template) == template.templateKey # ""

AddTemplate(template) ==
  /\ pc = "startup"
  /\ startup.server = "starting"
  /\ Len(startup.calls) < MaxCalls
  /\ IF ~hasTemplateKey(template)
     THEN /\ startup' = [startup EXCEPT !.calls = Append(@, Call(template, "rejected", 0))]
          /\ UNCHANGED templateRegistry
     ELSE LET r == addProvider(addTemplate(templateRegistry, template), template, startup)
          IN  /\ templateRegistry' = r.reg
              /\ startup' = [startup EXCEPT !.calls = Append(@, r.call)]
  /\ RenderUnchanged

\* addProvider(provider) is called and runs up to its first await
AddProvider(provider) ==
  /\ pc = "startup"
  /\ startup.server = "starting"
  /\ Len(startup.calls) < MaxCalls
  /\ LET r == addProvider(templateRegistry, provider, startup)
     IN  /\ templateRegistry' = r.reg
         /\ startup' = [startup EXCEPT !.calls = Append(@, r.call)]
  /\ RenderUnchanged

\* fileTypeFromFile resolves for call k, with a mime type or without one;
\* the mime type is written back to the file declaration of the class
FileTypeResolves(k, found) ==
  /\ pc = "startup"
  /\ startup.calls[k].at = "file"
  /\ LET call == startup.calls[k]
         st == IF found
               THEN [startup EXCEPT !.detected = @ \cup {<<call.template.name, call.template.files[call.i].key>>}]
               ELSE startup
         r == resumeProvider(templateRegistry, call, found, st)
     IN  /\ templateRegistry' = r.reg
         /\ startup' = [st EXCEPT !.calls[k] = r.call]
  /\ RenderUnchanged

\* the minifications of call k have resolved: the blocks of the class are
\* emptied and the call returns
MinifyResolves(k) ==
  /\ pc = "startup"
  /\ startup.calls[k].at = "minify"
  /\ startup' = [startup EXCEPT !.calls[k].at = "done",
                                !.cleared = @ \cup {startup.calls[k].template.name}]
  /\ UNCHANGED templateRegistry
  /\ RenderUnchanged

\* every call has returned: Promise.all resolves and the server listens
StartResolves ==
  /\ pc = "startup"
  /\ startup.server = "starting"
  /\ \A k \in 1..Len(startup.calls) : startup.calls[k].at = "done"
  /\ startup' = [startup EXCEPT !.server = "listening"]
  /\ UNCHANGED templateRegistry
  /\ RenderUnchanged

\* a call has rejected: Promise.all rejects, start() rejects before
\* super.start is called; the other calls go on
StartRejects ==
  /\ pc = "startup"
  /\ startup.server = "starting"
  /\ \E k \in 1..Len(startup.calls) : startup.calls[k].at \in {"rejected", "failed"}
  /\ startup' = [startup EXCEPT !.server = "rejected"]
  /\ UNCHANGED templateRegistry
  /\ RenderUnchanged

StartupNext ==
  \/ \E template \in Templates : AddTemplate(template)
  \/ \E provider \in Providers : AddProvider(provider)
  \/ \E k \in 1..Len(startup.calls) : \E found \in BOOLEAN : FileTypeResolves(k, found)
  \/ \E k \in 1..Len(startup.calls) : MinifyResolves(k)
  \/ StartResolves
  \/ StartRejects

StartupSpec == StartupInit /\ [][StartupNext]_vars


(***************************************************************************)
(* Vocabulary of the properties.                                           *)
(***************************************************************************)
\* every fetch task has run to its end, and renderPage has not yet gone on
FetchPhaseOver ==
  /\ pc = "fetch"
  /\ \A c \in Range(componentsIncludingPage) : TaskSettled(c)

\* the components of the tree under the page root
InTree == Range(collectComponents(Root, areas))

ParentOf(n) == CHOOSE p \in AllIds : \E i \in 1..Len(areas[p]) : n \in Range(areas[p][i].list)

\* the outputs recorded for component n in the renderedAreas ra of its parent
OutputsOf(ra, n) ==
  UNION {UNION {{ra[p][i].list[j].output :
                   j \in {k \in 1..Len(ra[p][i].list) : ra[p][i].list[k].component = n}} :
                i \in 1..Len(ra[p])} :
         p \in AllIds}

\* renderedAreas of p holds, per area of p, one pair per child, in list order
RenderedInOrder(p) ==
  /\ Len(renderedAreas[p]) = Len(areas[p])
  /\ \A i \in 1..Len(areas[p]) :
       /\ renderedAreas[p][i].name = areas[p][i].name
       /\ Len(renderedAreas[p][i].list) = Len(areas[p][i].list)
       /\ \A j \in 1..Len(areas[p][i].list) :
            renderedAreas[p][i].list[j].component = areas[p][i].list[j]

Called(hook) == {e[2] : e \in {f \in invoked : f[1] = hook}}

(***************************************************************************)
(* C1  Fetch-phase isolation: when the fetch phase is over, the components *)
(* in error are exactly those whose own fetch() threw or rejected, and     *)
(* every other component has its fetched value assigned, whatever the      *)
(* order in which the fetch tasks settled.                                 *)
(***************************************************************************)
C1_FetchIsolation ==
  FetchPhaseOver =>
    \A n \in hydrated :
      /\ hadError[n] <=> <<"fetch", n>> \in threw
      /\ <<"fetch", n>> \notin threw => fetched[n] \in {"data", "empty"}

\* the first sibling's fetch() failed, the page, the second sibling and its
\* child fetched normally
C1_Witness ==
  /\ FetchPhaseOver
  /\ <<"fetch", Native(1)>> \in threw
  /\ hadError[Native(1)]
  /\ \A n \in {Root, Native(2), NativeChild(2)} : ~hadError[n] /\ fetched[n] = "data"

(***************************************************************************)
(* C2  A component is in error only if one of its own hooks (fetch, in the *)
(* primary or the secondary round, setContext, render, renderVariation)    *)
(* threw: an error of a component never sets hadError on a sibling, an     *)
(* ancestor or the component that registered it.                           *)
(***************************************************************************)
C2_ErrorStaysOnNode ==
  \A n \in AllIds :
    hadError[n] => \E hook \in {"fetch", "setContext", "render", "renderVariation"} : <<hook, n>> \in threw

\* an inherited component failed in the secondary round and a native one
\* in setContext, and the page that registered the inherited component is
\* not in error at the end
C2_Witness ==
  /\ pc = "done"
  /\ result.kind = "returned"
  /\ Inherited(2) \in Range(extraComponents[Root])
  /\ <<"fetch", Inherited(2)>> \in threw
  /\ <<"setContext", Native(2)>> \in threw
  /\ ~hadError[Root]
  /\ ~hadError[Inherited(1)]

(***************************************************************************)
(* C3  When the fetch phase ends with the page root in error, renderPage   *)
(* returns the empty string with status 500, without having invoked any    *)
(* setContext, render or renderVariation and without assembling            *)
(* headContent.                                                            *)
(***************************************************************************)
C3_RootFetchErrorAborts ==
  [][(FetchPhaseOver /\ hadError[Root]) =>
       /\ pc' = "done"
       /\ result' = Returned(EmptyString)
       /\ status' = 500
       /\ ~headContent'.set
       /\ \A e \in invoked' : e[1] \notin {"setContext", "render", "renderVariation"}]_vars

C3_Witness ==
  /\ pc = "done"
  /\ <<"fetch", Root>> \in threw
  /\ result = Returned(EmptyString)
  /\ status = 500
  /\ \E n \in hydrated \ {Root} : fetched[n] = "data"

(***************************************************************************)
(* C4  Whenever renderPage returns with the page root in error, whatever   *)
(* phase, mode or extension, the body is empty and an error status was     *)
(* requested.                                                              *)
(***************************************************************************)
C4_RootErrorSuppressesResponse ==
  (pc = "done" /\ result.kind = "returned" /\ hadError[Root]) =>
    (result.body = EmptyString /\ status >= 400)

(***************************************************************************)
(* C5  Whatever hooks throw, renderPage returns a string and does not      *)
(* reject, provided the page's template is registered and getTemplates     *)
(* succeeded.                                                              *)
(***************************************************************************)
C5_NeverRejects ==
  (pc = "done" /\ templateKey(Root) \in DOMAIN templateRegistry.pages /\ result.error # "getTemplates") =>
    result.kind = "returned"

\* a setContext and the root's own render threw
C5_Witness ==
  /\ pc = "done"
  /\ result.kind = "returned"
  /\ <<"setContext", Native(2)>> \in threw
  /\ <<"render", Root>> \in threw

(***************************************************************************)
(* C6  In the html render phase, for a component that is already in error: *)
(* render() is invoked neither on it nor on any of its descendants, and    *)
(* its output is the empty string when editMode is false and the           *)
(* placeholder when editMode is true.                                      *)
(***************************************************************************)
C6_ErrorShortCircuits ==
  [][(pc = "context" /\ pc' = "done" /\ extension = "html") =>
       \A n \in InTree :
         hadError[n] =>
           /\ \A d \in Range(collectComponents(n, areas)) : d \notin Called("render")'
           /\ \A o \in OutputsOf(renderedAreas', n) : o = (IF editMode THEN Placeholder ELSE EmptyString)
           /\ n = Root => result'.body = (IF editMode THEN Placeholder ELSE EmptyString)
           /\ (n # Root /\ ParentOf(n) \in Called("render")') => OutputsOf(renderedAreas', n) # {}]_vars

\* in edit mode the second sibling was in error before the render phase:
\* the page rendered with the placeholder in its place, the child unrendered
C6_Witness ==
  /\ pc = "done"
  /\ extension = "html"
  /\ editMode
  /\ <<"fetch", Native(2)>> \in threw
  /\ Root \in Called("render")
  /\ NativeChild(2) \notin Called("render")
  /\ OutputsOf(renderedAreas, Native(2)) = {Placeholder}
  /\ ~hadError[Root]

(***************************************************************************)
(* C7  When render() of a component other than the root throws, the        *)
(* component is in error afterwards, its output is that of a component in  *)
(* error (empty, or the placeholder in edit mode), renderPage returns, and *)
(* render() of its parent is invoked with renderedAreas holding the output *)
(* of every child of every area.                                           *)
(***************************************************************************)
C7_RenderThrowIsolated ==
  (pc = "done" /\ extension = "html") =>
    \A n \in AllIds \ {Root} :
      <<"render", n>> \in threw =>
        /\ hadError[n]
        /\ result.kind = "returned"
        /\ ParentOf(n) \in Called("render")
        /\ RenderedInOrder(ParentOf(n))
        /\ OutputsOf(renderedAreas, n) = {IF editMode THEN Placeholder ELSE EmptyString}

\* render() of the first sibling threw in edit mode; the second sibling's
\* output is in the page's renderedAreas next to the placeholder
C7_Witness ==
  /\ pc = "done"
  /\ editMode
  /\ <<"render", Native(1)>> \in threw
  /\ Root \in Called("render")
  /\ ~hadError[Root]
  /\ Native(2) \in Called("render")
  /\ \E o \in OutputsOf(renderedAreas, Native(2)) : Len(o) >= 2
  /\ result.body # Placeholder

C9_VariationErrors ==
  [][(pc = "context" /\ pc' = "done" /\ extension # "html") =>
       \A n \in InTree :
         /\ hadError[n] =>
              /\ n \notin Called("renderVariation")'
              /\ \A o \in OutputsOf(renderedAreas', n) : o = EmptyString
              /\ n = Root => result'.body = EmptyString
         /\ <<"renderVariation", n>> \in threw' =>
              /\ hadError'[n]
              /\ \A o \in OutputsOf(renderedAreas', n) : o = EmptyString
              /\ n = Root => result'.body = EmptyString
              /\ n # Root => OutputsOf(renderedAreas', n) # {}]_vars

\* in edit mode, one sibling was in error before and renderVariation of the
\* other threw: both contribute the empty string to the page
C9_Witness ==
  /\ pc = "done"
  /\ extension = "rss"
  /\ editMode
  /\ <<"fetch", Native(1)>> \in threw
  /\ <<"renderVariation", Native(2)>> \in threw
  /\ hadError[Native(2)]
  /\ Native(1) \notin Called("renderVariation")
  /\ OutputsOf(renderedAreas, Native(1)) = {EmptyString}
  /\ OutputsOf(renderedAreas, Native(2)) = {EmptyString}
  /\ result.body = <<Root>>

(***************************************************************************)
(* C10  Inheritance modes: when a component registers the list I, all of   *)
(* registered templates, into an area holding the list E, the area holds   *)
(* I then E after splicing in mode top, E then I in mode bottom, and I in  *)
(* mode replace.                                                           *)
(***************************************************************************)
C10_ModeSemantics ==
  [][\A c \in AllIds :
       (/\ registered[c] = <<>>
        /\ Len(registered'[c]) = 1
        /\ \A k \in 1..Len(registered'[c][1].components) :
             templateKey(registered'[c][1].components[k]) \in DOMAIN templateRegistry.components) =>
         LET entry == registered'[c][1]
             E == IF MapHas(areas[c], entry.area) THEN MapGet(areas[c], entry.area) ELSE <<>>
             I == entry.components
             after == MapGet(areas'[c], entry.area)
         IN  /\ entry.mode = "top" => after = I \o E
             /\ entry.mode = "bottom" => after = E \o I
             /\ entry.mode = "replace" => after = I]_vars

\* the page registered the inherited list at the top of its area main
C10_Witness ==
  /\ Len(registered[Root]) = 1
  /\ registered[Root][1].mode = "top"
  /\ MapGet(areas[Root], "main") = InheritedData \o [i \in 1..NumNative |-> Native(i)]
  /\ Len(InheritedData) >= 2

(***************************************************************************)
(* Further vocabulary.                                                     *)
(***************************************************************************)
IndexOf(list, x) == CHOOSE i \in 1..Len(list) : list[i] = x

\* text holds part as a run of consecutive pieces
Contains(text, part) ==
  \E i \in 0..(Len(text) - Len(part)) : SubSeq(text, i + 1, i + Len(part)) = part

\* the area of the data that component data n lies in
DataParents(n) ==
  {pk \in AllIds \X {"main", "content", "junk"} :
     pk[2] \in DataAreaNames(pk[1]) /\ n \in Range(DataArea(pk[1], pk[2]))}

\* component data d and the data below it
RECURSIVE DataSubtree(_)
DataSubtree(d) ==
  {d} \cup UNION {UNION {DataSubtree(DataArea(d, key)[i]) : i \in 1..Len(DataArea(d, key))} :
                    key \in DataAreaNames(d)}

IsRegistered(d) == templateKey(d) \in DOMAIN templateRegistry.components

\* the entries of a data area whose template is registered, in data order
Kept(p, key) == SelectSeq(IF key \in DataAreaNames(p) THEN DataArea(p, key) ELSE <<>>, IsRegistered)

(***************************************************************************)
(* C11  With mode top, every component spliced in by a registration ends   *)
(* up before every child the area held before the registration was         *)
(* processed, also when some components of the list are dropped because    *)
(* their template key is unregistered.                                     *)
(***************************************************************************)
C11_TopBeforeExisting ==
  [][\A c \in AllIds :
       (/\ registered[c] = <<>>
        /\ Len(registered'[c]) = 1
        /\ registered'[c][1].mode = "top") =>
         LET entry == registered'[c][1]
             E == IF MapHas(areas[c], entry.area) THEN MapGet(areas[c], entry.area) ELSE <<>>
             after == MapGet(areas'[c], entry.area)
         IN  \A x \in Range(after) \ Range(E) : \A e \in Range(E) :
               IndexOf(after, x) < IndexOf(after, e)]_vars

(***************************************************************************)
(* C12  Every component spliced in from a registration, and every          *)
(* descendant of it, has inheritedFrom equal to the registration's source  *)
(* page id (the i-th id when an array as long as the component list is     *)
(* given); every natively hydrated component has inheritedFrom undefined.  *)
(***************************************************************************)
C12_InheritedFrom ==
  /\ \A n \in Range(componentsIncludingPage) : inheritedFrom[n] = ""
  /\ \A c \in AllIds : \A e \in 1..Len(registered[c]) :
       LET entry == registered[c][e]
       IN  \A i \in 1..Len(entry.components) :
             entry.components[i] \in hydrated =>
               \A d \in Range(collectComponents(entry.components[i], areas)) :
                 inheritedFrom[d] = IF entry.fromPageId.array THEN entry.fromPageId.ids[i]
                                    ELSE entry.fromPageId.ids[1]

\* a registration with one page id per component: the second component and
\* its child carry the second id, the native components none
C12_Witness ==
  /\ Len(registered[Root]) = 1
  /\ registered[Root][1].fromPageId.array
  /\ inheritedFrom[Inherited(1)] = FromPageIds[1]
  /\ inheritedFrom[Inherited(2)] = FromPageIds[2]
  /\ inheritedFrom[InheritedChild(2)] = FromPageIds[2]
  /\ FromPageIds[1] # FromPageIds[2]
  /\ inheritedFrom[Native(2)] = ""

(***************************************************************************)
(* C13  Inherited content cannot inherit: a registerInherited call made by *)
(* a spliced component or a descendant of one during its fetch leaves      *)
(* every area list and the master list unchanged, and every component of   *)
(* the master list is native or was spliced in by a native component.      *)
(***************************************************************************)
C13_InheritedCannotInherit ==
  [][/\ \A x \in AllIds :
          (/\ inheritedFrom[x] # ""
           /\ \E e \in invoked' \ invoked : e[1] = "registerInherited" /\ e[2] = x) =>
            /\ areas' = areas
            /\ componentsIncludingInherited' = componentsIncludingInherited
     /\ \A n \in Range(componentsIncludingInherited') :
          \/ n \in Range(componentsIncludingPage')
          \/ \E c \in Range(componentsIncludingPage') : n \in Range(extraComponents'[c])]_vars

\* a spliced panel and its child have both called registerInherited, and
\* the panel's area holds its child alone
C13_Witness ==
  /\ {<<"registerInherited", Inherited(2), "content">>,
      <<"registerInherited", InheritedChild(2), "content">>} \subseteq invoked
  /\ MapGet(areas[Inherited(2)], "content") = <<InheritedChild(2)>>
  /\ areas[InheritedChild(2)] = <<>>
  /\ Len(componentsIncludingInherited) = Len(componentsIncludingPage) + Len(extraComponents[Root])
  /\ Len(extraComponents[Root]) = 3

C15_NativeBars ==
  \A n \in hydrated :
    inheritedFrom[n] = "" =>
      \A a \in {"main", "content"} :
        IF editMode
        THEN /\ componentEditBar(n) # EmptyString
             /\ Contains(componentEditBar(n), joinPath(fields[n].path))
             /\ componentNewBar(n, a) # EmptyString
             /\ Contains(componentNewBar(n, a), joinPath(fields[n].path))
        ELSE /\ componentEditBar(n) = EmptyString
             /\ componentNewBar(n, a) = EmptyString

\* a page rendered in edit mode: the body holds the edit bar of the native
\* panel with its path, and the new bar of the page's area
C15_Witness ==
  /\ pc = "done"
  /\ editMode
  /\ Native(2) \in Called("render")
  /\ ~hadError[Root]
  /\ Contains(result.body, Text("<dg-edit-bar data-path=") \o joinPath(<<"areas", "main", "1">>))
  /\ Contains(result.body, Text("<dg-new-bar data-path=") \o joinPath(<<"areas", "main">>))

\* the names the components of the master list ask for, and the places of
\* the tags of the head content
CssRequests ==
  Flatten([i \in 1..Len(componentsIncludingInherited) |-> cssBlocks(componentsIncludingInherited[i])])
JsRequests ==
  Flatten([i \in 1..Len(componentsIncludingInherited) |-> jsBlocks(componentsIncludingInherited[i])])
TagPlaces(tag, name) ==
  {i \in 1..Len(headContent.tags) : headContent.tags[i] = Tag(tag, ".resources", name)}
FirstSeen(requests, name) ==
  CHOOSE i \in 1..Len(requests) : requests[i] = name /\ \A j \in 1..(i - 1) : requests[j] # name
\* the tags of the kind given follow the first-seen order of the requests
FirstSeenOrder(tag, requests) ==
  \A i \in 1..Len(headContent.tags) : \A j \in (i + 1)..Len(headContent.tags) :
    (/\ headContent.tags[i].tag = tag /\ headContent.tags[i].dir = ".resources"
     /\ headContent.tags[j].tag = tag /\ headContent.tags[j].dir = ".resources") =>
      FirstSeen(requests, headContent.tags[i].name) < FirstSeen(requests, headContent.tags[j].name)

(***************************************************************************)
(* C16  (as stated) Each registered CSS block name a component of the      *)
(* master list asks for is in exactly one style sheet link, each           *)
(* registered JS block name in exactly one script tag, and the tags are in *)
(* first-seen order of the master list.                                    *)
(***************************************************************************)
C16_OneTagPerBlock ==
  headContent.set =>
    /\ \A name \in Range(CssRequests) \cap DOMAIN templateRegistry.cssblocks :
         Cardinality(TagPlaces("stylesheet", name)) = 1
    /\ \A name \in Range(JsRequests) \cap DOMAIN templateRegistry.jsblocks :
         Cardinality(TagPlaces("script", name)) = 1
    /\ FirstSeenOrder("stylesheet", CssRequests)
    /\ FirstSeenOrder("script", JsRequests)

(***************************************************************************)
(* C16  (amended) Each registered CSS block name a component of the master *)
(* list asks for is in exactly one style sheet link if the block does not  *)
(* target the edit bars and in none if it does, each registered JS block   *)
(* name asked for is in exactly one script tag, and the style sheet links  *)
(* and the script tags are each in first-seen order of the master list.    *)
(***************************************************************************)
C16_OneTagPerNormalBlock ==
  headContent.set =>
    /\ \A name \in Range(CssRequests) \cap DOMAIN templateRegistry.cssblocks :
         Cardinality(TagPlaces("stylesheet", name)) =
           IF templateRegistry.cssblocks[name].targetsEditBars THEN 0 ELSE 1
    /\ \A name \in Range(JsRequests) \cap DOMAIN templateRegistry.jsblocks :
         Cardinality(TagPlaces("script", name)) = 1
    /\ FirstSeenOrder("stylesheet", CssRequests)
    /\ FirstSeenOrder("script", JsRequests)

\* two panels and two quotes in the master list: one link for the panels'
\* block, one for the quotes', one script for the panels' JS block
C16_Witness ==
  /\ headContent.set
  /\ Cardinality({i \in 1..Len(CssRequests) : CssRequests[i] = "richtext"}) = 2
  /\ Cardinality({i \in 1..Len(CssRequests) : CssRequests[i] = "quote"}) = 2
  /\ Cardinality({i \in 1..Len(JsRequests) : JsRequests[i] = "panel"}) = 2
  /\ Cardinality(TagPlaces("stylesheet", "richtext")) = 1
  /\ Cardinality(TagPlaces("stylesheet", "quote")) = 1
  /\ Cardinality(TagPlaces("script", "panel")) = 1
  /\ \E i \in TagPlaces("stylesheet", "richtext") : \E j \in TagPlaces("stylesheet", "quote") : i < j

(***************************************************************************)
(* C17  Hydration drops unknown templates: a component whose templateKey   *)
(* is not registered is left out with everything below it, hydration of a  *)
(* page whose template is registered does not fail, and every area of a    *)
(* component just hydrated holds the remaining children in data order,     *)
(* with indexInArea 0..n-1 and prevSibling and nextSibling the neighbours  *)
(* among them.                                                             *)
(***************************************************************************)
C17_HydrationDropsUnknown ==
  [][/\ (pc = "start" /\ templateKey(Root) \in DOMAIN templateRegistry.pages
         /\ result'.error # "getTemplates") => Root \in hydrated'
     /\ \A p \in hydrated' \ hydrated :
          \A a \in 1..Len(areas'[p]) :
            LET key == areas'[p][a].name
                list == areas'[p][a].list
                data == IF key \in DataAreaNames(p) THEN DataArea(p, key) ELSE <<>>
            IN  /\ list = Kept(p, key)
                /\ \A i \in 1..Len(data) :
                     ~IsRegistered(data[i]) => DataSubtree(data[i]) \cap hydrated' = {}
                /\ \A j \in 1..Len(list) :
                     /\ fields'[list[j]].indexInArea = j - 1
                     /\ fields'[list[j]].prevSibling = IF j > 1 THEN list[j - 1] ELSE Undefined
                     /\ fields'[list[j]].nextSibling = IF j < Len(list) THEN list[j + 1] ELSE Undefined]_vars

\* the link template is not registered: the first component of the page is
\* left out, and the second one, at place 1 of the data, has index 0
C17_Witness ==
  /\ pc = "fetch"
  /\ Native(1) \notin hydrated
  /\ {Root, Native(2), NativeChild(2)} \subseteq hydrated
  /\ MapGet(areas[Root], "main") = <<Native(2)>>
  /\ fields[Native(2)].indexInArea = 0
  /\ fields[Native(2)].path = <<"areas", "main", "1">>
  /\ fields[Native(2)].prevSibling = Undefined

(***************************************************************************)
(* C18  If the page's own templateKey has no registered page, renderPage   *)
(* rejects before any fetch is invoked and never returns a body.           *)
(***************************************************************************)
C18_MissingPageTemplateRejects ==
  templateKey(Root) \notin DOMAIN templateRegistry.pages =>
    /\ result.kind # "returned"
    /\ Called("fetch") = {}
    /\ hydrated = {}
    /\ pc = "done" => result.kind = "rejected"

C18_Witness ==
  /\ pc = "done"
  /\ templateKey(Root) \notin DOMAIN templateRegistry.pages
  /\ result = Rejected("Unable to render page. Missing template implementation.")
  /\ invoked = {}


\* the call of addTemplate or addProvider that a step has made
CallMade == Len(startup'.calls) = Len(startup.calls) + 1
TemplateAdded == startup'.calls[Len(startup'.calls)].template

\* the maps of blocks of the registry
BlockMaps == {"cssblocks", "jsblocks", "files"}

\* C19: a key is never in both the pages and the components map, the
\* implementation stored for a key stays the first one registered, and
\* addTemplate of a template whose key is already registered leaves both
\* maps unchanged
C19_OneImplementationPerKey ==
  [][/\ DOMAIN templateRegistry'.pages \cap DOMAIN templateRegistry'.components = {}
     /\ \A key \in DOMAIN templateRegistry.pages :
          /\ key \in DOMAIN templateRegistry'.pages
          /\ templateRegistry'.pages[key] = templateRegistry.pages[key]
     /\ \A key \in DOMAIN templateRegistry.components :
          /\ key \in DOMAIN templateRegistry'.components
          /\ templateRegistry'.components[key] = templateRegistry.components[key]
     /\ (/\ CallMade
         /\ TemplateAdded.templateKey \in
              DOMAIN templateRegistry.pages \cup DOMAIN templateRegistry.components)
        => /\ templateRegistry'.pages = templateRegistry.pages
           /\ templateRegistry'.components = templateRegistry.components]_vars

\* C20: a stored CSS, JS or file entry is replaced only by an entry whose
\* version is strictly greater than the stored one: when a version is
\* absent or the versions are equal the stored entry is kept
C20_ReplacedOnlyByGreater ==
  [][\A map \in BlockMaps : \A key \in DOMAIN templateRegistry[map] :
       /\ key \in DOMAIN templateRegistry'[map]
       /\ templateRegistry'[map][key] # templateRegistry[map][key]
          => /\ templateRegistry'[map][key].version # NoVersion
             /\ templateRegistry[map][key].version # NoVersion
             /\ semverGt(templateRegistry'[map][key].version,
                         templateRegistry[map][key].version)]_vars

\* the calls that have ended in a given way
CallsAt(at) == {k \in 1..Len(startup.calls) : startup.calls[k].at = at}

\* C21: addTemplate of a template without templateKey fails, and leaves
\* pages, components, all, cssblocks, jsblocks and files as they were
C21_UnkeyedTemplateRejected ==
  [][(CallMade /\ TemplateAdded \in Templates /\ TemplateAdded.templateKey = "")
       => /\ startup'.calls[Len(startup'.calls)].at = "rejected"
          /\ templateRegistry' = templateRegistry]_vars

\* a template without key was handed to addTemplate after another
\* template had been registered
C21_Witness ==
  /\ \E k \in CallsAt("rejected") : k > 1 /\ startup.calls[k].template = Unkeyed
  /\ templateRegistry.all # <<>>

\* C22: a template whose resources cannot be read does not keep the server
\* from starting: start() rejects only for a template without key, and
\* every template whose call returned is registered
C22_ResourceFailureIsolated ==
  /\ (CallsAt("failed") # {} /\ CallsAt("rejected") = {}) => startup.server # "rejected"
  /\ \A k \in CallsAt("done") :
       startup.calls[k].template \in Templates
         => startup.calls[k].template.name \in Range(templateRegistry.all)

\* the master list of the render in which the fetch tasks complete in the
\* order they were started: the native list, then the components each
\* native component spliced in, in the order of the native list
MasterInOrder ==
  componentsIncludingPage \o
  Flatten([i \in 1..Len(componentsIncludingPage) |->
             extraComponents[componentsIncludingPage[i]]])

\* C23: the head content handed to the page template (part of the string
\* the page renders) is the one of the render in which the fetch tasks
\* complete in the order they were started, whatever the order in which
\* they did complete
C23_HeadIndependentOfCompletionOrder ==
  headContent.set => headContent = assembleHead(MasterInOrder)

\* the hooks of the context phase and of the render phase
LaterHooks == {"setContext", "render", "renderVariation"}

\* C24: hadError of a component, once true, stays true, and no step made
\* when it is true invokes setContext, render or renderVariation on that
\* component
C24_ErrorStickyAbsorbing ==
  [][\A n \in AllIds :
       hadError[n] =>
         /\ hadError'[n]
         /\ \A e \in invoked' \ invoked : ~(e[1] \in LaterHooks /\ e[2] = n)]_vars

\* a component other than the root failed in the fetch phase, and the
\* context phase and the render phase have run over the page
C24_Witness ==
  /\ pc = "done"
  /\ result.kind = "returned"
  /\ \E n \in AllIds \ {Root} :
       /\ hadError[n]
       /\ <<"fetch", n>> \in threw
       /\ \E e \in invoked : e[1] = "setContext" /\ n \in Range(MapGet(areas[e[2]], e[3]))
       /\ \E e \in invoked : e[1] \in {"render", "renderVariation"} /\ e[2] = fields[n].parent

\* render() was invoked on a component
Rendered(n) == <<"render", n, "">> \in invoked

\* the output renderComponent has returned for a component the render
\* phase has gone through: what its render() returned, or what is put in
\* the place of a component in error
OutputOf(n) ==
  IF Rendered(n) /\ <<"render", n>> \notin threw
  THEN render(n, renderedAreas[n])
  ELSE errorOutput(editMode)

\* C25: when render() has been invoked on a component, its renderedAreas
\* hold, for each of its areas in order, one pair per child in the order
\* of the area's list, and the output of the pair is the finished output
\* of that child, made from the child's own renderedAreas
C25_RenderBottomUp ==
  \A n \in AllIds :
    Rendered(n) =>
      /\ Len(renderedAreas[n]) = Len(areas[n])
      /\ \A i \in 1..Len(areas[n]) :
           /\ renderedAreas[n][i].name = areas[n][i].name
           /\ Len(renderedAreas[n][i].list) = Len(areas[n][i].list)
           /\ \A j \in 1..Len(areas[n][i].list) :
                /\ renderedAreas[n][i].list[j].component = areas[n][i].list[j]
                /\ renderedAreas[n][i].list[j].output = OutputOf(areas[n][i].list[j])

\* the page, a panel of its area main, which holds two components or more,
\* and the child of the panel have been rendered
C25_Witness ==
  /\ Rendered(Root) /\ Rendered(Native(2)) /\ Rendered(NativeChild(2))
  /\ Len(MapGet(areas[Root], "main")) >= 2
  /\ \E j \in 1..Len(MapGet(areas[Root], "main")) : hadError[MapGet(areas[Root], "main")[j]]

\* the components hydrated from what component c registered
Spliced(c) == {n \in hydrated \cap (InheritedIds \cup ExtraIds) : fields[n].parent = c}

\* fetch() of component c has returned
FetchCompleted(c) == <<"fetch", c, "">> \in invoked /\ fetched[c] = "data"

\* C26: in the fetch phase the area lists of a component change, components
\* it registered are hydrated, and fetch() of such a component is called,
\* only in a step in which the component's own fetch() has returned; a
\* component whose fetch() failed has spliced nothing
C26_SpliceAfterPrimaryFetch ==
  [][pc = "fetch" =>
       /\ \A c \in AllIds :
            /\ ((c \in hydrated /\ areas'[c] # areas[c])
                  \/ (c \in Range(componentsIncludingPage) /\ hydrated' # hydrated
                        /\ Spliced(c)' # Spliced(c))
                  \/ extraComponents'[c] # extraComponents[c])
                 => fetchTask[c] = "fetching" /\ FetchCompleted(c)'
            /\ fetchTask'[c] = "failed"
                 => /\ Spliced(c)' = {} /\ extraComponents'[c] = <<>>
                    /\ areas'[c] = areas[c]
                    /\ ~FetchCompleted(c)'
       /\ invoked' # invoked =>
            \A x \in InheritedIds \cup ExtraIds :
              (<<"fetch", x, "">> \in invoked' /\ <<"fetch", x, "">> \notin invoked)
                => /\ \E r \in AllIds : x \in Range(extraComponents'[r])
                   /\ \A r \in AllIds : x \in Range(extraComponents'[r])
                                          => FetchCompleted(r)']_vars

\* the first native component has spliced the component it registered, whose
\* fetch() has returned, and fetch() of the second one, which may register
\* one as well, has failed
C26_Witness ==
  /\ FetchCompleted(Native(1)) /\ Extra(1) \in Spliced(Native(1))
  /\ secondary[Extra(1)] = "resolved"
  /\ fetchTask[Native(2)] = "failed" /\ Spliced(Native(2)) = {}

\* executeSetContext has been called on a component
Visited(n) == ctxTask[n].state # "idle"

\* the number of the area of its parent that holds component n
AreaOf(n) ==
  CHOOSE i \in 1..Len(areas[fields[n].parent]) : n \in Range(areas[fields[n].parent][i].list)

\* C27: a component other than the page is visited by the context phase,
\* and has setContext called, only once setContext of its parent has
\* returned for the area that holds it, and its renderCtx is the value that
\* call returned
C27_ContextTopDown ==
  [][\A n \in AllIds \ {Root} :
       (Visited(n)' \/ \E e \in invoked' : e[1] = "setContext" /\ e[2] = n)
         => /\ Len(renderCtxForArea'[fields'[n].parent]) >= AreaOf(n)'
            /\ renderCtx'[n] = renderCtxForArea'[fields'[n].parent][AreaOf(n)'].headerLevel]_vars

\* a panel of the page has advanced the context for its components, one of
\* which, an inherited one, has had setContext called in its turn
C27_Witness ==
  /\ Len(renderCtxForArea[Native(2)]) >= 1
  /\ renderCtxForArea[Native(2)][1].headerLevel = 2
  /\ \E e \in invoked : /\ e[1] = "setContext" /\ e[2] # Root
                        /\ fields[e[2]].parent = Native(2)
                        /\ renderCtx[e[2]] = 2

\* the context a visited component was given: what setContext of its parent
\* returned for its area, or the initial context for the page
Given(c) ==
  IF c = Root THEN 1 ELSE renderCtxForArea[fields[c].parent][AreaOf(c)].headerLevel

\* C28: whatever setContext of a component did for its areas so far, in
\* place or not, the component's own renderCtx is still the context it was
\* given, what setContext returned for each area derives from that context
\* alone (the same when the hook leaves it as it is, advanced when it
\* advances it), and the components of each area observe the value returned
\* for their area
C28_ContextIsolation ==
  \A c \in AllIds :
    Visited(c) =>
      /\ renderCtx[c] = Given(c)
      /\ \A i \in 1..Len(renderCtxForArea[c]) :
           /\ renderCtxForArea[c][i].headerLevel =
                IF renderCtxForArea[c][i].advanced
                THEN setContext(c, Given(c), areas[c][i].name)
                ELSE Given(c)
           /\ \A n \in Range(areas[c][i].list) :
                renderCtx[n] = renderCtxForArea[c][i].headerLevel

\* a panel has advanced the context for its first area, in place or in a
\* copy, and left it as it is for its second one, each of which holds a
\* component
C28_Witness ==
  /\ pc = "done"
  /\ Len(renderCtxForArea[Native(2)]) = 2
  /\ renderCtxForArea[Native(2)][1].advanced
  /\ ~renderCtxForArea[Native(2)][2].advanced
  /\ renderCtx[Native(2)] = 1
  /\ renderCtx[NativeChild(2)] = 2
  /\ renderCtx[Extra(2)] = 1
  /\ Visited(Native(1))

\* the component was in error before the context phase could reach it: its
\* error is that of no hook of the context and render phases
ErrorBeforeContext(n) ==
  /\ hadError[n]
  /\ \A hook \in LaterHooks : <<hook, n>> \notin threw

\* the components below a component
Descendants(n) == Range(collectComponents(n, areas)) \ {n}

\* C29: a component in error before the context phase has setContext
\* called for none of its areas, and no component below it is visited, has
\* setContext called or is given a renderCtx
C29_ErrorSkipsSubtree ==
  \A n \in AllIds :
    ErrorBeforeContext(n) =>
      /\ \A e \in invoked : ~(e[1] = "setContext" /\ e[2] = n)
      /\ renderCtxForArea[n] = <<>>
      /\ \A d \in Descendants(n) :
           /\ ~Visited(d)
           /\ renderCtx[d] = 0 /\ ctxObject[d] = <<>>
           /\ \A e \in invoked : ~(e[1] = "setContext" /\ e[2] = d)

\* the render has ended; fetch() of a panel of the page had failed, the
\* context phase has reached the panel and gone through another component
\* of the page, and has left out the component of the panel
C29_Witness ==
  /\ pc = "done" /\ result.kind = "returned" /\ status # 500
  /\ <<"fetch", Native(2)>> \in threw
  /\ Visited(Native(2)) /\ renderCtx[Native(2)] = 1
  /\ NativeChild(2) \in Descendants(Native(2))
  /\ \E e \in invoked : e[1] = "setContext" /\ e[2] = Native(1)

\* C30: once the fetch phase has started, fetch() has been called on a
\* component of the native list if and only if its shouldFetchVariation
\* returns true for the extension of the request, and a component it
\* returns false for has the empty result as fetched
C30_FetchGatedByVariation ==
  pc # "start" =>
    \A n \in Range(componentsIncludingPage) :
      /\ <<"fetch", n, "">> \in invoked <=> shouldFetchVariation(n, extension)
      /\ ~shouldFetchVariation(n, extension) => fetched[n] = "empty"
      /\ shouldFetchVariation(n, extension) => fetched[n] # "empty"

\* a variation is rendered to its end: fetch() of a panel was called and has
\* returned, fetch() of the quote in the panel was not called
C30_Witness ==
  /\ pc = "done" /\ result.kind = "returned" /\ extension # "html"
  /\ NativeChild(2) \in Range(componentsIncludingPage)
  /\ ~shouldFetchVariation(NativeChild(2), extension)
  /\ fetched[NativeChild(2)] = "empty"
  /\ <<"fetch", NativeChild(2), "">> \notin invoked
  /\ <<"fetch", Native(2), "">> \in invoked /\ fetched[Native(2)] = "data"

\* the registered CSS blocks the components of the master list ask for
RequestedCss == Range(CssRequests) \cap DOMAIN templateRegistry.cssblocks

\* those of them that target the edit bars
RequestedEditCss == {name \in RequestedCss : templateRegistry.cssblocks[name].targetsEditBars}

\* C31: once headContent is assembled, no block that targets the edit bars
\* has a style sheet link, every font preload is for a font of a requested
\* block that does not target them, a name that is not registered has no
\* tag and is not listed; in edit mode headContent starts with the includes
\* of the editor and lists exactly the requested blocks that target the edit
\* bars, each once, and outside edit mode it holds neither
C31_EditBarBlocksInHead ==
  headContent.set =>
    /\ \A name \in DOMAIN templateRegistry.cssblocks :
         templateRegistry.cssblocks[name].targetsEditBars => TagPlaces("stylesheet", name) = {}
    /\ \A i \in 1..Len(headContent.tags) :
         headContent.tags[i].tag = "preload" =>
           \E name \in RequestedCss \ RequestedEditCss :
             headContent.tags[i].name \in Range(templateRegistry.cssblocks[name].fontfiles)
    /\ \A name \in Range(CssRequests) \ DOMAIN templateRegistry.cssblocks :
         TagPlaces("stylesheet", name) = {} /\ name \notin Range(headContent.dgEditingBlocks)
    /\ \A name \in Range(JsRequests) \ DOMAIN templateRegistry.jsblocks :
         TagPlaces("script", name) = {}
    /\ IF editMode
       THEN /\ Len(headContent.tags) >= Len(editModeIncludes)
            /\ SubSeq(headContent.tags, 1, Len(editModeIncludes)) = editModeIncludes
            /\ Range(headContent.dgEditingBlocks) = RequestedEditCss
            /\ Len(headContent.dgEditingBlocks) = Cardinality(RequestedEditCss)
       ELSE /\ headContent.dgEditingBlocks = <<>>
            /\ Range(headContent.tags) \cap Range(editModeIncludes) = {}

\* a page edited with two panels and a quote: the panels' block for the
\* edit bars, which has a font, is listed once, the quote's font block has
\* its preloads, and the quote asks for a block that is not registered
C31_Witness ==
  /\ headContent.set /\ editMode
  /\ headContent.dgEditingBlocks = <<"paneledit">>
  /\ Cardinality({i \in 1..Len(CssRequests) : CssRequests[i] = "paneledit"}) = 2
  /\ templateRegistry.cssblocks["paneledit"].fontfiles # <<>>
  /\ "legacy" \in Range(CssRequests) \ DOMAIN templateRegistry.cssblocks
  /\ \E i \in 1..Len(headContent.tags) : headContent.tags[i] = Tag("preload", "", "roboto400")

\* C32: no two components of the tree have the same path
C32_PathsUnique ==
  \A n, m \in InTree : n # m => fields[n].path # fields[m].path

\* the names of the areas of a hydrated component, and of those it got by
\* a registration
AreaNames(n) == {areas[n][i].name : i \in 1..Len(areas[n])}
RegisteredAreas(n) == {registered[n][i].area : i \in 1..Len(registered[n])}

\* C33: the component of the area the page data holds and the page template
\* does not declare is never hydrated, fetched, given a context or
\* rendered, and is in no list; hydration alone puts no component in error;
\* a hydrated component has every area its template declares, and no area
\* besides those and the ones a registration added
C33_UndeclaredAreaIgnored ==
  /\ Stray \notin hydrated
  /\ Stray \notin Range(componentsIncludingInherited)
  /\ \A n \in hydrated : \A i \in 1..Len(areas[n]) : Stray \notin Range(areas[n][i].list)
  /\ \A e \in invoked : e[2] # Stray
  /\ fetched[Stray] = "unset" /\ fetchTask[Stray] = "idle"
  /\ ~Visited(Stray) /\ renderCtx[Stray] = 0
  /\ renderedAreas[Stray] = <<>>
  /\ threw = {} => \A n \in AllIds : ~hadError[n]
  /\ \A n \in hydrated :
       /\ Range(templateByKey(templateKey(n))) \subseteq AreaNames(n)
       /\ AreaNames(n) \subseteq Range(templateByKey(templateKey(n))) \cup RegisteredAreas(n)

\* a page whose data holds the undeclared area has been rendered to its end
\* with no error, its declared area in place
C33_Witness ==
  /\ pc = "done" /\ result.kind = "returned" /\ status = 0
  /\ "junk" \in DataAreaNames(Root) /\ "junk" \notin Range(templateByKey(templateKey(Root)))
  /\ Stray \in Range(DataArea(Root, "junk"))
  /\ AreaNames(Root) = {"main"}
  /\ Rendered(Root) /\ Rendered(Native(2))
  /\ \A n \in AllIds : ~hadError[n]

(***************************************************************************)
(* Termination.  The steps of renderPage after a join or an await are      *)
(* continuations the event loop runs once they are ready; that the call of *)
(* api.getTemplates() and every pending fetch() and setContext() settle is *)
(* the assumption of the claim.  The first step and the render phase, each *)
(* the only step of its state, have their fairness written out with that   *)
(* state: the one is ready while pc = "start", the other once the context  *)
(* phase is over, and each leaves its state for good.                      *)
(***************************************************************************)
\* the join of the fetch tasks, or a loop of the context phase, goes on
Scheduled ==
  \/ FetchPhaseEnds
  \/ \E c \in AllIds : ContextAdvances(c)

\* a pending fetch() settles
FetchSettles ==
  \E c \in AllIds : FetchResolves(c) \/ FetchRejects(c) \/ SecondaryResolves(c) \/ SecondaryRejects(c)

\* a pending setContext() settles
ContextSettles ==
  \E c \in AllIds : ContextResolves(c) \/ ContextRejects(c)

\* executeSetContext of the page has returned: the render phase is ready
ContextOver == pc = "context" /\ ctxTask[Root].state = "done"

\* the registries of the renders followed to their end: the complete one
\* and the one without the page template (one without a component template
\* gives a part of the tree of the complete one)
LiveRegistries ==
  {started(NewRegistry, templates, 1) :
     templates \in
       {<<PageTemplate1, LinkTemplate, PanelTemplate, QuoteTemplate,
          HorizontalRuleTemplate, TextImageTemplate>>,
        <<LinkTemplate, PanelTemplate, QuoteTemplate, HorizontalRuleTemplate, TextImageTemplate>>}}

\* the renders followed to their end; edit mode changes the markup only
LiveInit == Init /\ ~editMode /\ templateRegistry \in LiveRegistries

LiveSpec ==
  /\ LiveInit /\ [][Next]_vars
  /\ WF_vars(Scheduled) /\ WF_vars(FetchSettles) /\ WF_vars(ContextSettles)
  /\ <>[](pc # "start" /\ ~ContextOver)

\* a fetch() of the render has not settled
FetchPending ==
  \E c \in AllIds : fetchTask[c] = "fetching" \/ secondary[c] = "fetching"

\* C34: when every ready continuation runs and every pending fetch() and
\* setContext() settles, renderPage comes to its end; and as long as a
\* fetch() has not settled renderPage has not returned, whatever else
\* happens
C34_Termination ==
  /\ <>(pc = "done")
  /\ [](FetchPending => pc = "fetch" /\ result = Pending)

\* renderPage has returned after a fetch() and a setContext() that rejected
\* and others that resolved
C34_Witness ==
  /\ pc = "done" /\ result.kind = "returned"
  /\ \E e \in threw : e[1] = "fetch"
  /\ \E e \in threw : e[1] = "setContext"
  /\ \E n \in AllIds : secondary[n] = "resolved"
  /\ \E n \in AllIds : Len(renderCtxForArea[n]) > 0

\* C35: once the fetch phase is over, each component of each area list of
\* the tree has its place in the list as indexInArea, the component before
\* it as prevSibling and the one after it as nextSibling
C35_PositionsMatchFinalTree ==
  (pc \notin {"start", "fetch"} /\ Root \in hydrated) =>
    \A n \in InTree : \A a \in 1..Len(areas[n]) :
      \A j \in 1..Len(areas[n][a].list) :
        /\ fields[areas[n][a].list[j]].indexInArea = j - 1
        /\ fields[areas[n][a].list[j]].prevSibling =
             IF j > 1 THEN areas[n][a].list[j - 1] ELSE Undefined
        /\ fields[areas[n][a].list[j]].nextSibling =
             IF j < Len(areas[n][a].list) THEN areas[n][a].list[j + 1] ELSE Undefined

\* setContext of a component has been called and has not settled, or the
\* loop of a component waits for the components of an area
ContextPending == \E n \in AllIds : ctxTask[n].state \in {"calling", "children"}

\* C36: setContext has been called on a component only if no fetch() of
\* the render is pending; render() has been called on a component only if
\* headContent is assigned, no fetch() is pending and executeSetContext
\* has returned for every component it was called on; and a step that
\* calls setContext starts from a state where no fetch() was left to start
C36_PhaseBarriers ==
  [][/\ (\E e \in invoked' : e[1] = "setContext") => ~FetchPending'
     /\ (\E e \in invoked' \ invoked : e[1] = "setContext")
          => ~FetchPending /\ pc \in {"fetch", "context"}
     /\ (\E e \in invoked' : e[1] = "render")
          => /\ headContent'.set
             /\ ~FetchPending' /\ ~ContextPending'
             /\ ctxTask'[Root].state = "done"
     /\ (\E e \in invoked' \ invoked : e[1] \in {"render", "renderVariation"})
          => ~ContextPending /\ ctxTask[Root].state = "done"]_vars

\* a page has been rendered after primary and inherited fetches, some
\* failed, and after setContext calls on the page and below it
C36_Witness ==
  /\ pc = "done" /\ result.kind = "returned" /\ headContent.set
  /\ Rendered(Root) /\ \E n \in AllIds \ {Root} : Rendered(n)
  /\ \E n \in AllIds : secondary[n] = "resolved"
  /\ \E e \in threw : e[1] = "fetch"
  /\ \E e \in invoked : e[1] = "setContext" /\ e[2] # Root

\* fetch() of a component is called in this step
FetchStarts(n) ==
  \/ fetchTask'[n] = "fetching" /\ fetchTask[n] # "fetching"
  \/ secondary'[n] = "fetching" /\ secondary[n] # "fetching"

\* C37: render() or renderVariation() has been called on a component only
\* if its fetched value is assigned and its fetch() did not fail; fetch()
\* of a component is called only if it was not called before, and no
\* component is fetched both as a native and as an inherited one
C37_RenderedOnlyIfFetched ==
  [][\A n \in AllIds :
       /\ (\E e \in invoked' : e[1] \in {"render", "renderVariation"} /\ e[2] = n)
            => fetched'[n] \in {"data", "empty"} /\ <<"fetch", n>> \notin threw'
       /\ FetchStarts(n)
            => /\ <<"fetch", n, "">> \notin invoked /\ <<"fetch", n, "">> \in invoked'
               /\ fetched[n] = "unset" /\ <<"fetch", n>> \notin threw
       /\ fetchTask'[n] = "idle" \/ secondary'[n] = "idle"]_vars

\* a page has been rendered with an inherited component and a native one,
\* each after its fetch(), while a component whose fetch() failed was left
\* out
C37_Witness ==
  /\ pc = "done" /\ result.kind = "returned"
  /\ \E x \in InheritedIds \cup ExtraIds : Rendered(x) /\ fetched[x] = "data"
  /\ Rendered(Native(2)) /\ fetched[Native(2)] = "data"
  /\ \E n \in InTree : <<"fetch", n>> \in threw /\ ~Rendered(n)

\* C38: fetch() has been called on an inherited component only if its
\* shouldFetchVariation returns true for the extension of the request
C38_InheritedFetchGated ==
  \A x \in InheritedIds \cup ExtraIds :
    <<"fetch", x, "">> \in invoked => shouldFetchVariation(x, extension)

\* the blocks the components of the tree ask for
TreeCss == UNION {Range(cssBlocks(n)) : n \in InTree}
TreeJs == UNION {Range(jsBlocks(n)) : n \in InTree}

\* C39: every style sheet link and every script of headContent for a block
\* of the registry is for a block a component of the tree asks for
C39_HeadOnlyFromFinalTree ==
  headContent.set =>
    \A i \in 1..Len(headContent.tags) :
      /\ (headContent.tags[i].tag = "stylesheet" /\ headContent.tags[i].dir = ".resources")
           => headContent.tags[i].name \in TreeCss
      /\ (headContent.tags[i].tag = "script" /\ headContent.tags[i].dir = ".resources")
           => headContent.tags[i].name \in TreeJs

\* the blocks a class declares for a map of the registry
Declared(template, map) ==
  CASE map = "cssblocks" -> Range(template.cssBlocks)
    [] map = "jsblocks" -> Range(template.jsBlocks)
    [] map = "files" -> Range(template.files)

\* the versions the calls of the start have registered for a name
VersionsOf(map, key) ==
  UNION {{<<k, b.version>> : b \in {d \in Declared(startup.calls[k].template, map) : d.key = key}} :
           k \in 1..Len(startup.calls)}

\* C40: when every call of the start has returned and the calls have
\* registered a name with versions that are present and pairwise distinct,
\* no registered version is greater than the one the registry stores
C40_GreatestVersionStored ==
  (/\ startup.calls # <<>>
   /\ \A k \in 1..Len(startup.calls) : startup.calls[k].at = "done")
  => \A map \in BlockMaps : \A key \in DOMAIN templateRegistry[map] :
       (/\ \A v \in VersionsOf(map, key) : v[2] # NoVersion
        /\ \A v, w \in VersionsOf(map, key) : v # w => v[2] # w[2])
       => \A v \in VersionsOf(map, key) :
            /\ templateRegistry[map][key].version # NoVersion
            /\ ~semverGt(v[2], templateRegistry[map][key].version)
====
